---------------------------- MODULE Spec2Model ----------------------------
(***************************************************************************)
(* CYAN FLAME control plane: the rotate-and-broadcast artifact registries  *)
(* (grpc/calibration.rs, grpc/compute_calibration.rs,                      *)
(* grpc/pcie_amplification.rs) and their composition in grpc/server.rs.    *)
(*                                                                         *)
(* The three registries share no state and run the same steps, so one      *)
(* behaviour follows the registry family `svc` chosen in Init.  Of that     *)
(* family the server holds two instances: "owned", the Arc kept in the     *)
(* CyanFlameGrpcServer struct, and "served", the instance serve() hands to *)
(* the router.  Time is counted in seconds.                                *)
(*                                                                         *)
(* The certificate authority (grpc/certificate.rs) and its gRPC service    *)
(* (grpc/certificate_service.rs) follow: the store, the fingerprint index, *)
(* the revocation list and the OCSP responder's DER encoder.  The          *)
(* authority's clock `utc` is counted in hours.                            *)
(*                                                                         *)
(* Then the API key store and the request interceptor (grpc/auth.rs) with  *)
(* the tier check of artifact requests (grpc/calibration.rs), whose clock  *)
(* `auth_utc` is counted in seconds, and the in-memory cache               *)
(* (uao_qtcam_cache.rs) with its three locks.                              *)
(*                                                                         *)
(* Last come the allocation service (grpc/allocation.rs), whose u64 totals *)
(* are kept as 16-bit limbs, and the prediction API with its subscriptions *)
(* (gfef/api.rs, gfef/subscription.rs, gfef/prediction.rs), whose clock    *)
(* `gfef_utc` is counted in days.                                          *)
(***************************************************************************)
EXTENDS Integers, Sequences, FiniteSets, TLC

\* ----------------------------------------------------------------- bounds
\* Highest version a rotation may produce in RegistrySpec.
MaxVersion == 3
\* Highest version a rotation may produce in LagSpec (above the backlog).
MaxLagVersion == 103
\* The clock stops advancing at MaxTime, in steps of ClockStep seconds.
MaxTime == 120
ClockStep == 60
\* Utc::now() stops advancing at MaxUtc, in steps of UtcStep hours.
MaxUtc == 48
UtcStep == 24
\* validity_days of a request ranges over 1..MaxValidityDays.
MaxValidityDays == 1
\* Serial strings handed to the DER encoder have 0..MaxSerialLen bytes.
MaxSerialLen == 18
\* cert_status (u8) handed to the DER encoder ranges over 0..MaxCertStatus.
MaxCertStatus == 3

\* -------------------------------------------------------------- constants
\* calibration.rs:24 (and compute_calibration.rs:28, pcie_amplification.rs:34)
MATRIX_ROTATION_INTERVAL_SECS == 60
\* broadcast::channel(100), calibration.rs:39
BROADCAST_CAPACITY == 100

Services == {"calibration", "compute_calibration", "pcie_amplification"}
Instances == {"owned", "served"}
Subscribers == {"s1", "s2"}
NoInstance == "none"

VARIABLES
    svc,              \* the registry family this behaviour follows
    now,              \* SystemTime::now(), seconds
    server,           \* "constructed" | "serving"
    exists,           \* exists[i]: instance i has been constructed
    routed,           \* routed[i]: instance i is registered with the router
    version,          \* version[i]: Arc<RwLock<u64>>
    current_matrix,   \* current_matrix[i]: Arc<RwLock<Matrix>>
    matrix_broadcast, \* matrix_broadcast[i]: broadcast::Sender state
    task,             \* task[i]: the rotation task (pc, locals, next tick)
    rx,               \* rx[s]: a subscriber's BroadcastStream
    received,         \* received[s]: versions the stream yielded to s
    pending,          \* a validate_matrix_version call between its two reads
    resp,             \* the last response a handler returned
    utc,              \* Utc::now(), hours
    certificates,     \* Arc<RwLock<HashMap<serial, CertificateEntry>>>
    fingerprint_index,\* Arc<RwLock<HashMap<fingerprint, serial>>>
    crl,              \* Arc<RwLock<Vec<CrlEntry>>>
    crl_last_update,  \* Arc<RwLock<DateTime<Utc>>>
    issuing,          \* an issue_certificate call between its two inserts
    revoking,         \* a revoke_certificate call holding the store's lock
    crl_read,         \* a get_crl call between its two reads
    cresp,            \* the last response a certificate handler returned
    ocsp,             \* the last output of build_ocsp_response_der
    auth_enabled,     \* AuthManager.auth_enabled
    api_keys,         \* Arc<RwLock<HashMap<key_hash, ApiKeyEntry>>>
    keys_lock,        \* the caller holding api_keys' write lock, or "none"
    auth_utc,         \* Utc::now() as the key store reads it, seconds
    auth_call,        \* auth_call[c]: caller c's position in an AuthManager call
    aresp,            \* the last result an authentication call returned
    auth_log,         \* per key hash: what was let through since its window began
    cache,            \* Arc<RwLock<HashMap<String, CacheEntry>>>
    current_size,     \* Arc<RwLock<usize>>
    stats,            \* Arc<RwLock<CacheStats>>
    locks,            \* the writer and the readers of the cache's three locks
    thread,           \* thread[t]: thread t's position in a cache call
    incr_calls,       \* per key: incr calls returned since the key was fresh
    allocations,      \* Arc<RwLock<HashMap<allocation_id, AllocationRecord>>>
    agent_allocations,\* Arc<RwLock<HashMap<agent_id, u64>>>
    alloc_call,       \* alloc_call[c]: caller c's position in an allocation call
    alloc_ids,        \* allocation ids handed out so far
    alloc_resp,       \* the last response an allocation handler returned
    subscriptions,    \* RwLock<SubscriptionManager>: customer -> Subscription
    indices,          \* ActivationPredictor::indices: the registered model ids
    gfef_utc,         \* Utc::now() as the prediction API reads it, days
    gfef_matrix,      \* CalibrationService::current_matrix of the prediction API
    presp             \* the last response a prediction API handler returned

registryVars == <<svc, now, server, exists, routed, version, current_matrix,
                  matrix_broadcast, task, rx, received, pending, resp>>

certVars == <<utc, certificates, fingerprint_index, crl, crl_last_update,
              issuing, revoking, crl_read, cresp, ocsp>>

authVars == <<auth_enabled, api_keys, keys_lock, auth_utc, auth_call, aresp,
              auth_log>>

cacheVars == <<cache, current_size, stats, locks, thread, incr_calls>>

allocVars == <<allocations, agent_allocations, alloc_call, alloc_ids, alloc_resp>>

gfefVars == <<subscriptions, indices, gfef_utc, gfef_matrix, presp>>

vars == <<svc, now, server, exists, routed, version, current_matrix,
          matrix_broadcast, task, rx, received, pending, resp,
          utc, certificates, fingerprint_index, crl, crl_last_update,
          issuing, revoking, crl_read, cresp, ocsp,
          auth_enabled, api_keys, keys_lock, auth_utc, auth_call, aresp,
          auth_log,
          cache, current_size, stats, locks, thread, incr_calls,
          allocations, agent_allocations, alloc_call, alloc_ids, alloc_resp,
          subscriptions, indices, gfef_utc, gfef_matrix, presp>>

\* ------------------------------------------------------------- generator
\* SHA-256 over the payload; the payload is a function of the version alone.
Sha256(v) == <<"sha256", v>>

\* generate_calibration_matrix(version), called at time t.
GenerateMatrix(v, t) ==
    [version      |-> v,
     matrix_hash  |-> Sha256(v),
     generated_at |-> t,
     expires_at   |-> t + MATRIX_ROTATION_INTERVAL_SECS]

\* ------------------------------------------------------ broadcast channel
\* tokio broadcast: `log` is every value stored so far (the tail position is
\* Len(log)); only the last BROADCAST_CAPACITY of them are retained.
NewChannel == [log |-> <<>>, rx_cnt |-> 0]

\* Position of the oldest retained value minus one.
OldestRetained(ch) ==
    IF Len(ch.log) > BROADCAST_CAPACITY THEN Len(ch.log) - BROADCAST_CAPACITY ELSE 0

\* Faulty variant of ChannelSend: the value is stored twice.
ChannelSend_Twice(ch, msg) ==
    IF ch.rx_cnt = 0 THEN ch ELSE [ch EXCEPT !.log = Append(Append(@, msg), msg)]

\* Sender::send: Err when there is no receiver (the value is not stored),
\* otherwise the value is stored at the tail.  It never waits.
ChannelSend(ch, msg) ==
    IF ch.rx_cnt = 0 THEN ch ELSE [ch EXCEPT !.log = Append(@, msg)]

SendResult(ch) == IF ch.rx_cnt = 0 THEN "err" ELSE "ok"

\* Faulty variant of SubscribePosition: the new receiver starts at the oldest
\* retained value, so it replays the backlog.
SubscribePosition_Replay(ch) == OldestRetained(ch)

\* Sender::subscribe: the new receiver starts at the tail.
SubscribePosition(ch) == Len(ch.log)

\* ------------------------------------------------------------- new()
NewTask == [pc |-> "idle", new_version |-> 0, new_matrix |-> <<>>,
            next_tick |-> 0, last_send |-> "none"]

NoRx == [state |-> "none", inst |-> NoInstance, next |-> 0, sub_pos |-> 0,
         sub_version |-> 0, sub_current |-> 0, sub_published |-> 0,
         lagged |-> FALSE]

NoPending == [op |-> "none"]
NoResp == [op |-> "none"]

TypeOK ==
    /\ svc \in Services
    /\ now \in Nat
    /\ server \in {"constructed", "serving"}
    /\ exists \in [Instances -> BOOLEAN]
    /\ routed \in [Instances -> BOOLEAN]
    /\ \A i \in Instances : version[i] \in Nat
    /\ \A i \in Instances : task[i].pc \in {"idle", "tick", "generate", "install", "send", "dead"}
    /\ \A s \in Subscribers : rx[s].state \in {"none", "live", "closed"}

\* An absent value (Option::None, no call in flight, no response yet).
None == <<>>
Some(x) == <<x>>
NoCall == [pc |-> "none"]
NoCertResp == [op |-> "none"]
NoOcsp == [der |-> <<>>]
EmptyMap == [k \in {} |-> k]

\* CertificateManager::new: empty store, index and list; the list's
\* timestamp is the time of construction.
ConstructedAt == 0

InitCertificates ==
    /\ utc = ConstructedAt
    /\ certificates = EmptyMap
    /\ fingerprint_index = EmptyMap
    /\ crl = <<>>
    /\ crl_last_update = ConstructedAt
    /\ issuing = NoCall
    /\ revoking = NoCall
    /\ crl_read = NoCall
    /\ cresp = NoCertResp
    /\ ocsp = NoOcsp

\* The callers of the key store and the threads that share one cache.
AuthCallers == {"c1", "c2"}
Threads == {"t1", "t2"}
CacheKeys == {"counter", "key1"}
LockNames == {"cache", "current_size", "stats"}
NoAuthResp == [op |-> "none"]
Unlocked == [writer |-> "none", readers |-> {}]
FreshRun == [pure |-> TRUE, n |-> 0]

\* AuthManager::new(auth_enabled): an empty key store.
InitAuth ==
    /\ auth_enabled \in BOOLEAN
    /\ api_keys = EmptyMap
    /\ keys_lock = "none"
    /\ auth_utc = ConstructedAt
    /\ auth_call = [c \in AuthCallers |-> NoCall]
    /\ aresp = NoAuthResp
    /\ auth_log = EmptyMap

\* UaoQtcamCache::new: an empty map, size 0, CacheStats::default().
InitCache ==
    /\ cache = EmptyMap
    /\ current_size = 0
    /\ stats = [hits |-> 0, misses |-> 0, sets |-> 0, deletes |-> 0,
                entry_count |-> 0, compressed_bytes |-> 0, original_bytes |-> 0]
    /\ locks = [l \in LockNames |-> Unlocked]
    /\ thread = [t \in Threads |-> NoCall]
    /\ incr_calls = [k \in CacheKeys |-> FreshRun]

\* AllocationServiceImpl::new: two empty maps.
AllocCallers == {"c1", "c2"}

InitAllocation ==
    /\ allocations = EmptyMap
    /\ agent_allocations = EmptyMap
    /\ alloc_call = [c \in AllocCallers |-> NoCall]
    /\ alloc_ids = 0
    /\ alloc_resp = [op |-> "none"]

\* The rotation period AppState::new is given, in days.
calibration_rotation == 15

\* AppState::new: no subscription, no index, a matrix generated now.
InitGfef ==
    /\ subscriptions = EmptyMap
    /\ indices = EmptyMap
    /\ gfef_utc = ConstructedAt
    /\ gfef_matrix = [expires_at |-> ConstructedAt + calibration_rotation]
    /\ presp = [op |-> "none"]

\* with_config_and_auth: the three owned instances are built by new(), and
\* so are the certificate service and the authentication manager.
Init ==
    /\ InitCertificates
    /\ InitAuth
    /\ InitCache
    /\ InitAllocation
    /\ InitGfef
    /\ svc \in Services
    /\ now = 0
    /\ server = "constructed"
    /\ exists = [i \in Instances |-> i = "owned"]
    /\ routed = [i \in Instances |-> FALSE]
    /\ version = [i \in Instances |-> 1]
    /\ current_matrix = [i \in Instances |-> GenerateMatrix(1, 0)]
    /\ matrix_broadcast = [i \in Instances |-> NewChannel]
    /\ task = [i \in Instances |-> NewTask]
    /\ rx = [s \in Subscribers |-> NoRx]
    /\ received = [s \in Subscribers |-> <<>>]
    /\ pending = NoPending
    /\ resp = NoResp


\* ------------------------------------------------------------- serve()
\* serve(): starts the rotation task of the owned instance (the first tick of
\* tokio::time::interval completes at once), then registers with the router an
\* instance built by a second call of new().
Serve ==
    /\ server = "constructed"
    /\ server' = "serving"
    /\ task' = [task EXCEPT !["owned"].pc = "tick", !["owned"].next_tick = now]
    /\ exists' = [exists EXCEPT !["served"] = TRUE]
    /\ routed' = [routed EXCEPT !["served"] = TRUE]
    /\ version' = [version EXCEPT !["served"] = 1]
    /\ current_matrix' = [current_matrix EXCEPT !["served"] = GenerateMatrix(1, now)]
    /\ matrix_broadcast' = [matrix_broadcast EXCEPT !["served"] = NewChannel]
    /\ UNCHANGED <<certVars, authVars, cacheVars, allocVars, gfefVars, svc, now, rx, received, pending, resp>>

\* ------------------------------------------------------- rotation task
\* Faulty variant of RotationTick: the counter is raised by two.
RotationTick_SkipVersion(i, maxv) ==
    /\ task[i].pc = "tick"
    /\ now >= task[i].next_tick
    /\ version[i] < maxv
    /\ version' = [version EXCEPT ![i] = @ + 2]
    /\ task' = [task EXCEPT ![i].pc = "generate",
                            ![i].new_version = version[i] + 2,
                            ![i].next_tick = @ + MATRIX_ROTATION_INTERVAL_SECS]
    /\ UNCHANGED <<certVars, authVars, cacheVars, allocVars, gfefVars, svc, now, server, exists, routed, current_matrix,
                   matrix_broadcast, rx, received, pending, resp>>

\* interval.tick().await; *version += 1; new_version = *version; drop(version)
RotationTick(i, maxv) ==
    /\ task[i].pc = "tick"
    /\ now >= task[i].next_tick
    /\ version[i] < maxv
    /\ version' = [version EXCEPT ![i] = @ + 1]
    /\ task' = [task EXCEPT ![i].pc = "generate",
                            ![i].new_version = version[i] + 1,
                            ![i].next_tick = @ + MATRIX_ROTATION_INTERVAL_SECS]
    /\ UNCHANGED <<certVars, authVars, cacheVars, allocVars, gfefVars, svc, now, server, exists, routed, current_matrix,
                   matrix_broadcast, rx, received, pending, resp>>

\* let new_matrix = Self::generate_calibration_matrix(new_version)
RotationGenerate(i) ==
    /\ task[i].pc = "generate"
    /\ task' = [task EXCEPT ![i].pc = "install",
                            ![i].new_matrix = GenerateMatrix(task[i].new_version, now)]
    /\ UNCHANGED <<certVars, authVars, cacheVars, allocVars, gfefVars, svc, now, server, exists, routed, version, current_matrix,
                   matrix_broadcast, rx, received, pending, resp>>

\* The generator panics (duration_since(UNIX_EPOCH).unwrap() on a clock set
\* before the epoch): the spawned task ends, nothing catches the panic and
\* nothing restarts the loop.
RotationPanic(i) ==
    /\ task[i].pc = "generate"
    /\ task' = [task EXCEPT ![i].pc = "dead"]
    /\ UNCHANGED <<certVars, authVars, cacheVars, allocVars, gfefVars, svc, now, server, exists, routed, version, current_matrix,
                   matrix_broadcast, rx, received, pending, resp>>

\* Faulty variant of RotationInstall: the task goes on to its send with the
\* previous artifact still current.
RotationInstall_Skipped(i) ==
    /\ task[i].pc = "install"
    /\ task' = [task EXCEPT ![i].pc = "send"]
    /\ UNCHANGED <<certVars, authVars, cacheVars, allocVars, gfefVars, svc, now, server, exists, routed, version,
                   current_matrix, matrix_broadcast, rx, received, pending, resp>>

\* *this.current_matrix.write().await = new_matrix
RotationInstall(i) ==
    /\ task[i].pc = "install"
    /\ current_matrix' = [current_matrix EXCEPT ![i] = task[i].new_matrix]
    /\ task' = [task EXCEPT ![i].pc = "send"]
    /\ UNCHANGED <<certVars, authVars, cacheVars, allocVars, gfefVars, svc, now, server, exists, routed, version,
                   matrix_broadcast, rx, received, pending, resp>>

\* Faulty variant of RotationSend: a send that finds no receiver ends the loop.
RotationSend_StopOnErr(i) ==
    /\ task[i].pc = "send"
    /\ matrix_broadcast' = [matrix_broadcast EXCEPT
                              ![i] = ChannelSend(@, task[i].new_version)]
    /\ task' = [task EXCEPT ![i].pc = IF SendResult(matrix_broadcast[i]) = "err"
                                      THEN "dead" ELSE "tick",
                            ![i].last_send = SendResult(matrix_broadcast[i])]
    /\ UNCHANGED <<certVars, authVars, cacheVars, allocVars, gfefVars, svc, now, server, exists, routed, version, current_matrix,
                   rx, received, pending, resp>>

\* if let Err(e) = this.matrix_broadcast.send(update) { debug!(..) }; loop
RotationSend(i) ==
    /\ task[i].pc = "send"
    /\ matrix_broadcast' = [matrix_broadcast EXCEPT
                              ![i] = ChannelSend(@, task[i].new_version)]
    /\ task' = [task EXCEPT ![i].pc = "tick",
                            ![i].last_send = SendResult(matrix_broadcast[i])]
    /\ UNCHANGED <<certVars, authVars, cacheVars, allocVars, gfefVars, svc, now, server, exists, routed, version, current_matrix,
                   rx, received, pending, resp>>

\* The version of the last rotation of instance i that reached its send: the
\* counter, less one while a rotation is between its increment and its send
\* (or ended there).
Published(i) ==
    IF task[i].pc \in {"generate", "install", "send", "dead"}
    THEN version[i] - 1 ELSE version[i]

\* ------------------------------------------------------------ handlers
\* subscribe_calibration_matrix: matrix_broadcast.subscribe() wrapped in a
\* BroadcastStream.  sub_version, sub_current and sub_published record the
\* registry as it was when subscribe() returned.
Subscribe(s, i) ==
    /\ exists[i]
    /\ rx[s].state = "none"
    /\ rx' = [rx EXCEPT ![s] =
                [state       |-> "live",
                 inst        |-> i,
                 next        |-> SubscribePosition(matrix_broadcast[i]),
                 sub_pos     |-> SubscribePosition(matrix_broadcast[i]),
                 sub_version |-> version[i],
                 sub_current |-> current_matrix[i].version,
                 sub_published |-> Published(i),
                 lagged      |-> FALSE]]
    /\ matrix_broadcast' = [matrix_broadcast EXCEPT ![i].rx_cnt = @ + 1]
    /\ UNCHANGED <<certVars, authVars, cacheVars, allocVars, gfefVars, svc, now, server, exists, routed, version, current_matrix,
                   task, received, pending, resp>>

\* The stream yields Ok(update): the value at the receiver's position.
StreamItem(s) ==
    /\ rx[s].state = "live"
    /\ LET ch == matrix_broadcast[rx[s].inst] IN
       /\ rx[s].next >= OldestRetained(ch)
       /\ rx[s].next < Len(ch.log)
       /\ received' = [received EXCEPT ![s] = Append(@, ch.log[rx[s].next + 1])]
       /\ rx' = [rx EXCEPT ![s].next = @ + 1]
    /\ UNCHANGED <<certVars, authVars, cacheVars, allocVars, gfefVars, svc, now, server, exists, routed, version, current_matrix,
                   matrix_broadcast, task, pending, resp>>

\* Faulty variant of StreamLagged: the receiver is moved to the tail, which
\* drops the retained values as well.
StreamLagged_ToTail(s) ==
    /\ rx[s].state = "live"
    /\ LET ch == matrix_broadcast[rx[s].inst] IN
       /\ rx[s].next < OldestRetained(ch)
       /\ rx' = [rx EXCEPT ![s].next = Len(ch.log), ![s].lagged = TRUE]
    /\ UNCHANGED <<certVars, authVars, cacheVars, allocVars, gfefVars, svc, now, server, exists, routed, version, current_matrix,
                   matrix_broadcast, task, received, pending, resp>>

\* The receiver's position was overwritten: recv gives Err(Lagged(n)) and
\* moves the receiver to the oldest retained value; filter_map(|r| r.ok())
\* drops the error.
StreamLagged(s) ==
    /\ rx[s].state = "live"
    /\ LET ch == matrix_broadcast[rx[s].inst] IN
       /\ rx[s].next < OldestRetained(ch)
       /\ rx' = [rx EXCEPT ![s].next = OldestRetained(ch), ![s].lagged = TRUE]
    /\ UNCHANGED <<certVars, authVars, cacheVars, allocVars, gfefVars, svc, now, server, exists, routed, version, current_matrix,
                   matrix_broadcast, task, received, pending, resp>>

\* The client disconnects: the stream, and with it the receiver, is dropped.
Disconnect(s) ==
    /\ rx[s].state = "live"
    /\ rx' = [rx EXCEPT ![s].state = "closed"]
    /\ matrix_broadcast' = [matrix_broadcast EXCEPT ![rx[s].inst].rx_cnt = @ - 1]
    /\ UNCHANGED <<certVars, authVars, cacheVars, allocVars, gfefVars, svc, now, server, exists, routed, version, current_matrix,
                   task, received, pending, resp>>

\* get_calibration_matrix: current_matrix.read().await.clone()
GetMatrix(i) ==
    /\ exists[i]
    /\ resp' = [op |-> "get", inst |-> i, matrix |-> current_matrix[i], at |-> now]
    /\ UNCHANGED <<certVars, authVars, cacheVars, allocVars, gfefVars, svc, now, server, exists, routed, version, current_matrix,
                   matrix_broadcast, task, rx, received, pending>>

\* SystemTime advances.
AdvanceClock ==
    /\ now < MaxTime
    /\ now' = now + ClockStep
    /\ UNCHANGED <<certVars, authVars, cacheVars, allocVars, gfefVars, svc, server, exists, routed, version, current_matrix,
                   matrix_broadcast, task, rx, received, pending, resp>>

\* The runtime wakes the rotation task at its next deadline.
SleepUntilTick(i, maxv) ==
    /\ task[i].pc = "tick"
    /\ version[i] < maxv
    /\ now < task[i].next_tick
    /\ now' = task[i].next_tick
    /\ UNCHANGED <<certVars, authVars, cacheVars, allocVars, gfefVars, svc, server, exists, routed, version, current_matrix,
                   matrix_broadcast, task, rx, received, pending, resp>>

\* validate_matrix_version, first lock: let current_version = *version.read().await
\* (the guard is a temporary: the lock is released at the end of the statement).
\* seen_matrix records the matrix current at this read.
ValidateReadVersion(i, claimed_version, claimed_hash) ==
    /\ svc = "calibration"
    /\ exists[i]
    /\ pending.op = "none"
    /\ pending' = [op              |-> "validate",
                   inst            |-> i,
                   current_version |-> claimed_version,
                   matrix_hash     |-> claimed_hash,
                   read_version    |-> version[i],
                   seen_matrix     |-> current_matrix[i].version]
    /\ UNCHANGED <<certVars, authVars, cacheVars, allocVars, gfefVars, svc, now, server, exists, routed, version, current_matrix,
                   matrix_broadcast, task, rx, received, resp>>

\* Faulty variant of MatrixVersionResponse: needs_update also when the claimed
\* version equals the current one.
MatrixVersionResponse_LaxUpdate(req_version, req_hash, cur_version, cur_hash) ==
    [is_valid       |-> (req_version = cur_version /\ req_hash = cur_hash),
     needs_update   |-> req_version <= cur_version,
     latest_version |-> cur_version]

\* The response computed from the version read first and the matrix read second.
MatrixVersionResponse(req_version, req_hash, cur_version, cur_hash) ==
    [is_valid       |-> (req_version = cur_version /\ req_hash = cur_hash),
     needs_update   |-> req_version < cur_version,
     latest_version |-> cur_version]

\* validate_matrix_version, second lock: current_matrix.read().await, then the
\* response.
ValidateReadMatrix ==
    /\ pending.op = "validate"
    /\ resp' = [op |-> "validate"] @@
               MatrixVersionResponse(pending.current_version, pending.matrix_hash,
                                     pending.read_version,
                                     current_matrix[pending.inst].matrix_hash)
    /\ pending' = NoPending
    /\ UNCHANGED <<certVars, authVars, cacheVars, allocVars, gfefVars, svc, now, server, exists, routed, version, current_matrix,
                   matrix_broadcast, task, rx, received>>

\* ------------------------------------------------------ specifications
Rotation(i, maxv) ==
    \/ RotationTick(i, maxv)
    \/ RotationGenerate(i)
    \/ RotationInstall(i)
    \/ RotationSend(i)

\* The server was built with authentication enabled.
ServerInit == Init /\ auth_enabled

\* The registries under rotation, subscription, reads and the clock.
RegistryNext ==
    \/ Serve
    \/ \E i \in Instances : Rotation(i, MaxVersion)
    \/ \E i \in Instances : RotationPanic(i)
    \/ \E s \in Subscribers, i \in Instances : Subscribe(s, i)
    \/ \E s \in Subscribers : StreamItem(s)
    \/ \E s \in Subscribers : Disconnect(s)
    \/ \E i \in Instances : GetMatrix(i)
    \/ AdvanceClock

RegistrySpec == ServerInit /\ [][RegistryNext]_vars

\* One registry with validate_matrix_version and get racing the rotation.
ClaimedVersions == 1..MaxVersion
ClaimedHashes == {Sha256(v) : v \in 1..MaxVersion}

ValidateNext ==
    \/ Serve
    \/ \E i \in Instances : Rotation(i, MaxVersion)
    \/ \E i \in Instances : SleepUntilTick(i, MaxVersion)
    \/ \E i \in Instances, v \in ClaimedVersions, h \in ClaimedHashes :
           ValidateReadVersion(i, v, h)
    \/ ValidateReadMatrix
    \/ \E i \in Instances : GetMatrix(i)

ValidateSpec == ServerInit /\ [][ValidateNext]_vars

\* One subscriber, connected before the first rotation, that may stop
\* consuming for longer than the backlog holds.
LagNext ==
    \/ Serve
    \/ Rotation("owned", MaxLagVersion)
    \/ SleepUntilTick("owned", MaxLagVersion)
    \/ (version["owned"] = 1 /\ task["owned"].pc = "tick" /\ Subscribe("s1", "owned"))
    \/ StreamItem("s1")
    \/ StreamLagged("s1")

LagSpec == ServerInit /\ [][LagNext]_vars

\* ------------------------------------------------------------- helpers
Range(seq) == {seq[k] : k \in 1..Len(seq)}

Consecutive(seq) == \A k \in 1..(Len(seq) - 1) : seq[k + 1] = seq[k] + 1

Increasing(seq) == \A k \in 1..(Len(seq) - 1) : seq[k + 1] > seq[k]

TaskAlive(i) == task[i].pc \in {"tick", "generate", "install", "send"}

\* ---------------------------------------------------------------- claims

\* C1: in every state a concurrent request can observe, the version counter
\* of a registry equals the version of its current artifact, and validating
\* the version and hash of the artifact get() returns in that state answers
\* is_valid = TRUE and needs_update = FALSE.
C1_CounterMatchesCurrent ==
    \A i \in Instances :
        exists[i] =>
            LET m == current_matrix[i]
                r == MatrixVersionResponse(m.version, m.matrix_hash,
                                           version[i], current_matrix[i].matrix_hash)
            IN  /\ version[i] = m.version
                /\ r.is_valid
                /\ ~r.needs_update

\* C2: the version of every registry starts at 1, every rotation raises it by
\* exactly 1, it never decreases or skips a value, and each installed
\* artifact carries the next version, so no version is used twice.
C2_VersionStepsByOne ==
    /\ \A i \in Instances : version[i] = 1 /\ current_matrix[i].version = 1
    /\ [][\A i \in Instances :
            /\ version'[i] \in {version[i], version[i] + 1}
            /\ (task[i].pc = "tick" /\ task'[i].pc # "tick")
                   => version'[i] = version[i] + 1
            /\ (exists[i] /\ current_matrix'[i] # current_matrix[i])
                   => /\ current_matrix'[i].version = current_matrix[i].version + 1
                      /\ current_matrix'[i].version = version[i]
                      /\ current_matrix'[i].matrix_hash = Sha256(version[i])
            /\ (~exists[i] /\ exists'[i])
                   => version'[i] = 1 /\ current_matrix'[i].version = 1]_vars

\* C2 witness: two rotations have run to their install.
C2_Witness ==
    \E i \in Instances : version[i] = 3 /\ current_matrix[i].version = 3

\* The values stored for subscriber s since it subscribed.
StoredSince(s) ==
    LET ch == matrix_broadcast[rx[s].inst]
    IN  SubSeq(ch.log, rx[s].sub_pos + 1, Len(ch.log))

\* C3 as stated: every connected subscriber receives consecutive versions,
\* each the previous one plus 1.
C3_AlwaysConsecutive ==
    \A s \in Subscribers : rx[s].state = "live" => Consecutive(received[s])

\* C3 as amended: a connected subscriber that has never fallen more than
\* BROADCAST_CAPACITY updates behind receives consecutive versions, and the
\* updates stored for it are exactly one per rotation that reached its send
\* since it subscribed.
C3_ConsecutiveUnlessLagged ==
    \A s \in Subscribers :
        (rx[s].state = "live" /\ ~rx[s].lagged) =>
            /\ Consecutive(received[s])
            /\ received[s] = SubSeq(matrix_broadcast[rx[s].inst].log,
                                    rx[s].sub_pos + 1, rx[s].next)
            /\ StoredSince(s) =
                   [k \in 1..(Published(rx[s].inst) - rx[s].sub_published)
                        |-> rx[s].sub_published + k]

\* C3 witness: a subscriber that kept up has received two updates in a row.
C3_Witness ==
    \E s \in Subscribers :
        /\ rx[s].state = "live" /\ ~rx[s].lagged
        /\ Len(received[s]) >= 2

\* C4 as stated: a subscriber never receives the artifact that was current
\* when it subscribed, nor an older one.
C4_NothingCurrentAtSubscribe ==
    \A s \in Subscribers :
        \A k \in 1..Len(received[s]) : received[s][k] > rx[s].sub_current

\* C4 as amended: a subscriber never receives an artifact whose rotation had
\* reached its send before subscribe() returned; every update it receives
\* was sent after that, and carries at least the version the counter had at
\* subscribe time.
C4_OnlySentAfterSubscribe ==
    \A s \in Subscribers :
        \A k \in 1..Len(received[s]) :
            /\ received[s][k] > rx[s].sub_published
            /\ received[s][k] >= rx[s].sub_version

\* C4 witness: a subscriber that joined after a rotation was published has
\* received an update.
C4_Witness ==
    \E s \in Subscribers :
        /\ rx[s].sub_published >= 2
        /\ Len(received[s]) >= 1

\* C5: every instance registered with the router is driven by a rotation
\* task.
C5_ServedIsRotated ==
    \A i \in Instances : routed[i] => task[i].pc # "idle"

\* The instance registered with the router stays at version 1.
ServedNeverRotates ==
    \A i \in Instances : routed[i] => version[i] = 1 /\ current_matrix[i].version = 1

\* C6: a validate_matrix_version call whose two reads see one registry state
\* answers is_valid iff the claimed version and hash both equal the current
\* ones, needs_update iff the claimed version is below the current version,
\* and latest_version = the current version.
C6_ValidateVersion ==
    [][(/\ pending.op = "validate"
        /\ pending'.op = "none"
        /\ version[pending.inst] = pending.read_version
        /\ current_matrix[pending.inst].version = pending.seen_matrix)
       => LET i == pending.inst IN
          /\ resp'.op = "validate"
          /\ resp'.is_valid <=>
                 (/\ pending.current_version = version[i]
                  /\ pending.matrix_hash = current_matrix[i].matrix_hash)
          /\ resp'.needs_update <=> (pending.current_version < version[i])
          /\ resp'.latest_version = version[i]]_vars

\* C6 witness: a call made after a rotation answered is_valid.
C6_Witness ==
    /\ resp.op = "validate"
    /\ resp.is_valid
    /\ resp.latest_version >= 2

\* C7: get() never returns an artifact that is past its expiry.
C7_GetNeverExpired ==
    resp.op = "get" => resp.at <= resp.matrix.expires_at

\* C8: the send of a rotation never waits for a subscriber; what a subscriber
\* receives is in increasing version order; and an update stored for it is
\* lost to it only when at least BROADCAST_CAPACITY newer ones were stored.
C8_LossyNonBlocking ==
    /\ \A i \in Instances : task[i].pc = "send" => ENABLED RotationSend(i)
    /\ \A s \in Subscribers :
        rx[s].state = "live" =>
            LET ch == matrix_broadcast[rx[s].inst] IN
            /\ Increasing(received[s])
            /\ \A p \in (rx[s].sub_pos + 1)..rx[s].next :
                   ch.log[p] \notin Range(received[s]) => p <= OldestRetained(ch)

\* C8 witness: a subscriber lost updates to the backlog bound and then
\* received the oldest retained one.
C8_Witness ==
    \E s \in Subscribers :
        /\ rx[s].state = "live" /\ rx[s].lagged
        /\ Len(received[s]) >= 1
        /\ rx[s].next >= 1
        /\ received[s][Len(received[s])] = matrix_broadcast[rx[s].inst].log[rx[s].next]

\* C9: a rotation task that is running keeps running, also across a failure
\* of the generator.
C9_TaskSurvivesFailure ==
    [][\A i \in Instances : TaskAlive(i) => TaskAlive(i)']_vars

\* C10: a rotation whose send finds no receiver has raised the version and
\* replaced the current artifact, and the task returns to wait for its next
\* tick.
C10_RotatesWithoutSubscribers ==
    [][\A i \in Instances :
        (/\ task[i].pc = "send"
         /\ task'[i].pc # "send"
         /\ matrix_broadcast[i].rx_cnt = 0)
        => /\ task'[i].pc = "tick"
           /\ task'[i].last_send = "err"
           /\ version'[i] = task[i].new_version
           /\ current_matrix'[i].version = task[i].new_version
           /\ matrix_broadcast'[i] = matrix_broadcast[i]]_vars

\* C10 witness: after a send that found no receiver, a further rotation ran.
C10_Witness ==
    \E i \in Instances :
        /\ task[i].last_send = "err"
        /\ task[i].pc = "tick"
        /\ version[i] >= 3
        /\ current_matrix[i].version = version[i]
        /\ matrix_broadcast[i].rx_cnt = 0

\* ---------------------------------------------- certificate authority
\* Strings are tuples of tokens: the empty string is the empty tuple, and two
\* strings are equal iff their tokens are.
EmptyString == <<>>

\* Duration::days(validity_days), certificate.rs:223, in hours.
HOURS_PER_DAY == 24
\* Duration::hours(24), certificate.rs:397.
CRL_NEXT_UPDATE_HOURS == 24

\* Values Uuid::new_v4 may format into a serial (32 hex digits each).
SerialPool == {<<"serial", "A1">>, <<"serial", "B2">>}
\* A well-formed serial the authority never issued.
UnissuedSerial == <<"serial", "C3">>
\* What clients put into their requests.
Orgs == {"acme"}
CommonNames == {"agent-1"}
ApiKeys == {"k1", "k2"}
\* The credential certificates are requested with.
IssueKeys == {"k1"}
ValidityDays == 1..MaxValidityDays
Reasons == {"KeyCompromise", "Superseded"}
SerialRequests == SerialPool \cup {UnissuedSerial, EmptyString}

\* format!("{:x}", md5::compute(api_key)).
Md5Hex(api_key) == <<"md5", api_key>>
\* hex::encode(Sha256(bytes)): injective, never empty, never a serial.
Sha256Hex(bytes) == <<"sha256">> \o bytes

\* serialize_pem_with_signer and serialize_der_with_signer: the PEM text and
\* the DER bytes of the certificate with this serial.
CertificatePem(serial) == <<"pem", serial[2]>>
CertificateDer(serial) == <<"der", serial[2]>>

\* calculate_fingerprint(cert_der).
calculate_fingerprint(cert_der) == Sha256Hex(cert_der)

FingerprintRequests ==
    {calculate_fingerprint(CertificateDer(s)) : s \in SerialPool \cup {UnissuedSerial}}
        \cup {EmptyString}
PemRequests ==
    {CertificatePem(s) : s \in SerialPool} \cup {EmptyString, <<"pem", "forged">>}

\* HashMap::insert: the value of an existing key is replaced.
Insert(map, key, value) ==
    [k \in DOMAIN map \cup {key} |-> IF k = key THEN value ELSE map[k]]

\* The store's write lock is held by a revoke_certificate call in progress.
Locked == revoking.pc # "none"

\* CertificateEntry::current_status at time t.
current_status_ExpiryFirst(cert, t) ==
    IF t >= cert.expires_at THEN "Expired"
    ELSE IF cert.status = "Revoked" THEN "Revoked"
    ELSE "Valid"

current_status(cert, t) ==
    IF cert.status = "Revoked" THEN "Revoked"
    ELSE IF t >= cert.expires_at THEN "Expired"
    ELSE "Valid"

\* generate_serial: a version-4 UUID out of the pool; its 122 random bits
\* are taken never to repeat a serial already in the store.
generate_serial_Reuse == SerialPool

generate_serial == SerialPool \ DOMAIN certificates

\* The CertificateEntry built by issue_certificate at time t.
NewEntry(serial_number, org_id, common_name, api_key_hash, validity_days, t) ==
    [serial_number      |-> serial_number,
     fingerprint_sha256 |-> calculate_fingerprint(CertificateDer(serial_number)),
     common_name        |-> common_name,
     org_id             |-> org_id,
     bound_api_key_hash |-> api_key_hash,
     certificate_pem    |-> CertificatePem(serial_number),
     issued_at          |-> t,
     expires_at         |-> t + validity_days * HOURS_PER_DAY,
     status             |-> "Valid",
     revoked_at         |-> None,
     revocation_reason  |-> None]

\* get_certificate and get_certificate_by_fingerprint.
get_certificate(serial_number) ==
    IF serial_number \in DOMAIN certificates
    THEN Some(certificates[serial_number]) ELSE None

get_certificate_by_fingerprint(fingerprint) ==
    IF fingerprint \in DOMAIN fingerprint_index
    THEN get_certificate(fingerprint_index[fingerprint]) ELSE None

\* issue_certificate up to and including the insert into the store; the
\* insert into the fingerprint index is a later lock acquisition.
issue_certificate(org_id, common_name, api_key_hash, validity_days, rpc) ==
    /\ issuing = NoCall
    /\ ~Locked
    /\ \E serial_number \in generate_serial :
         LET entry == NewEntry(serial_number, org_id, common_name,
                               api_key_hash, validity_days, utc)
         IN /\ certificates' = Insert(certificates, serial_number, entry)
            /\ issuing' = [pc |-> "index", entry |-> entry, rpc |-> rpc]
    /\ UNCHANGED <<registryVars, authVars, cacheVars, allocVars, gfefVars, utc, fingerprint_index, crl, crl_last_update,
                   revoking, crl_read, cresp, ocsp>>

\* issue_certificate, second insert, and the handler's CertificateResponse.
IssueIndex ==
    /\ issuing.pc = "index"
    /\ cresp = NoCertResp
    /\ fingerprint_index' = Insert(fingerprint_index,
                                   issuing.entry.fingerprint_sha256,
                                   issuing.entry.serial_number)
    /\ cresp' = [op                 |-> issuing.rpc,
                 success            |-> TRUE,
                 error_message      |-> EmptyString,
                 certificate_pem    |-> issuing.entry.certificate_pem,
                 serial_number      |-> issuing.entry.serial_number,
                 fingerprint_sha256 |-> issuing.entry.fingerprint_sha256,
                 org_id             |-> issuing.entry.org_id,
                 common_name        |-> issuing.entry.common_name]
    /\ issuing' = NoCall
    /\ UNCHANGED <<registryVars, authVars, cacheVars, allocVars, gfefVars, utc, certificates, crl, crl_last_update,
                   revoking, crl_read, ocsp>>

\* request_certificate.
RequestCertificate(org_id, common_name, api_key, validity_days) ==
    issue_certificate(org_id, common_name, Md5Hex(api_key), validity_days,
                      "RequestCertificate")

\* renew_certificate returning success: false.
RenewFails(error_message) ==
    /\ cresp = NoCertResp
    /\ cresp' = [op |-> "RenewCertificate", success |-> FALSE,
                 error_message |-> error_message]
    /\ UNCHANGED <<registryVars, authVars, cacheVars, allocVars, gfefVars, utc, certificates, fingerprint_index, crl,
                   crl_last_update, issuing, revoking, crl_read, ocsp>>

\* renew_certificate up to the insert into the store.
RenewCertificate(old_certificate_pem, api_key, validity_days) ==
    LET api_key_hash == Md5Hex(api_key)
        old_cert_fingerprint ==
            IF old_certificate_pem # EmptyString
            THEN Sha256Hex(old_certificate_pem) ELSE EmptyString
        old_cert == get_certificate_by_fingerprint(old_cert_fingerprint)
    IN IF old_cert_fingerprint # EmptyString
       THEN /\ (old_cert_fingerprint \in DOMAIN fingerprint_index => ~Locked)
            /\ IF old_cert = None
               THEN RenewFails("Original certificate not found")
               ELSE IF old_cert[1].bound_api_key_hash # api_key_hash
               THEN RenewFails("API key does not match the original certificate")
               ELSE IF old_cert[1].revoked_at # None
               THEN RenewFails("Cannot renew a revoked certificate")
               ELSE issue_certificate(old_cert[1].org_id, old_cert[1].common_name,
                                      api_key_hash, validity_days,
                                      "RenewCertificate")
       ELSE issue_certificate("renewed-org", "renewed-client", api_key_hash,
                              validity_days, "RenewCertificate")

\* revoke_certificate returning Err: nothing was written.
RevokeFails_Stamp(serial_number, error_message) ==
    /\ cresp = NoCertResp
    /\ cresp' = [op |-> "RevokeCertificate", success |-> FALSE,
                 error_message |-> error_message,
                 serial_number |-> serial_number, revoked_at_ms |-> 0]
    /\ crl_last_update' = utc
    /\ UNCHANGED <<registryVars, authVars, cacheVars, allocVars, gfefVars, utc, certificates, fingerprint_index, crl,
                   issuing, revoking, crl_read, ocsp>>

RevokeFails(serial_number, error_message) ==
    /\ cresp = NoCertResp
    /\ cresp' = [op |-> "RevokeCertificate", success |-> FALSE,
                 error_message |-> error_message,
                 serial_number |-> serial_number, revoked_at_ms |-> 0]
    /\ UNCHANGED <<registryVars, authVars, cacheVars, allocVars, gfefVars, utc, certificates, fingerprint_index, crl,
                   crl_last_update, issuing, revoking, crl_read, ocsp>>

\* revoke_certificate: takes the store's write lock, which it keeps to its
\* end, looks the serial up and marks the entry.
RevokeCertificate(serial_number, reason) ==
    /\ ~Locked
    /\ IF serial_number \in DOMAIN certificates
       THEN IF certificates[serial_number].status = "Revoked"
            THEN RevokeFails(serial_number, "Certificate is already revoked")
            ELSE /\ certificates' =
                        [certificates EXCEPT ![serial_number] =
                            [@ EXCEPT !.status = "Revoked",
                                      !.revoked_at = Some(utc),
                                      !.revocation_reason = Some(reason)]]
                 /\ revoking' = [pc |-> "push", serial_number |-> serial_number,
                                 now |-> utc, reason |-> reason]
                 /\ UNCHANGED <<registryVars, authVars, cacheVars, allocVars, gfefVars, utc, fingerprint_index, crl,
                                crl_last_update, issuing, crl_read, cresp, ocsp>>
       ELSE RevokeFails(serial_number, "Certificate not found")

\* revoke_certificate: self.crl.write().await.push(..).
RevokePush_Replace ==
    /\ revoking.pc = "push"
    /\ crl' = <<[serial_number |-> revoking.serial_number,
                 revoked_at    |-> revoking.now,
                 reason        |-> revoking.reason]>>
    /\ revoking' = [revoking EXCEPT !.pc = "stamp"]
    /\ UNCHANGED <<registryVars, authVars, cacheVars, allocVars, gfefVars, utc, certificates, fingerprint_index,
                   crl_last_update, issuing, crl_read, cresp, ocsp>>

RevokePush ==
    /\ revoking.pc = "push"
    /\ crl' = Append(crl, [serial_number |-> revoking.serial_number,
                           revoked_at    |-> revoking.now,
                           reason        |-> revoking.reason])
    /\ revoking' = [revoking EXCEPT !.pc = "stamp"]
    /\ UNCHANGED <<registryVars, authVars, cacheVars, allocVars, gfefVars, utc, certificates, fingerprint_index,
                   crl_last_update, issuing, crl_read, cresp, ocsp>>

\* revoke_certificate: *self.crl_last_update.write().await = now, the lock is
\* released and the handler answers.
RevokeStamp ==
    /\ revoking.pc = "stamp"
    /\ cresp = NoCertResp
    /\ crl_last_update' = revoking.now
    /\ revoking' = NoCall
    /\ cresp' = [op |-> "RevokeCertificate", success |-> TRUE,
                 error_message |-> EmptyString,
                 serial_number |-> revoking.serial_number,
                 revoked_at_ms |-> utc]
    /\ UNCHANGED <<registryVars, authVars, cacheVars, allocVars, gfefVars, utc, certificates, fingerprint_index, crl,
                   issuing, crl_read, ocsp>>

\* get_crl: self.crl.read().await.clone().
CrlReadEntries ==
    /\ crl_read = NoCall
    /\ crl_read' = [pc |-> "stamp", crl |-> crl]
    /\ UNCHANGED <<registryVars, authVars, cacheVars, allocVars, gfefVars, utc, certificates, fingerprint_index, crl,
                   crl_last_update, issuing, revoking, cresp, ocsp>>

\* get_crl: *self.crl_last_update.read().await, and the returned triple.
CrlReadStamp ==
    /\ crl_read.pc = "stamp"
    /\ cresp = NoCertResp
    /\ cresp' = [op          |-> "GetCrl",
                 entries     |-> crl_read.crl,
                 this_update |-> crl_last_update,
                 next_update |-> crl_last_update + CRL_NEXT_UPDATE_HOURS]
    /\ crl_read' = NoCall
    /\ UNCHANGED <<registryVars, authVars, cacheVars, allocVars, gfefVars, utc, certificates, fingerprint_index, crl,
                   crl_last_update, issuing, revoking, ocsp>>

\* check_status.
CheckStatus(serial_number) ==
    /\ ~Locked
    /\ cresp = NoCertResp
    /\ cresp' = [op |-> "check_status", serial_number |-> serial_number,
                 status |-> IF get_certificate(serial_number) = None
                            THEN "Unknown"
                            ELSE current_status(get_certificate(serial_number)[1], utc)]
    /\ UNCHANGED <<registryVars, authVars, cacheVars, allocVars, gfefVars, utc, certificates, fingerprint_index, crl,
                   crl_last_update, issuing, revoking, crl_read, ocsp>>

\* get_certificate_status.
GetCertificateStatus(serial_number, fingerprint_sha256) ==
    LET serial == IF serial_number # EmptyString
                  THEN serial_number ELSE fingerprint_sha256
        found == get_certificate(serial)
    IN /\ ~Locked
       /\ cresp = NoCertResp
       /\ cresp' = IF found # None
                   THEN [op            |-> "GetCertificateStatus",
                         found         |-> TRUE,
                         serial_number |-> found[1].serial_number,
                         status        |-> IF found[1].revoked_at # None
                                           THEN "revoked"
                                           ELSE IF found[1].expires_at < utc
                                           THEN "expired"
                                           ELSE "valid",
                         revoked_at    |-> found[1].revoked_at]
                   ELSE [op            |-> "GetCertificateStatus",
                         found         |-> FALSE,
                         serial_number |-> serial,
                         status        |-> "unknown",
                         revoked_at    |-> None]
       /\ UNCHANGED <<registryVars, authVars, cacheVars, allocVars, gfefVars, utc, certificates, fingerprint_index, crl,
                      crl_last_update, issuing, revoking, crl_read, ocsp>>

\* The caller takes the response the handler returned.
Return ==
    /\ cresp # NoCertResp
    /\ cresp' = NoCertResp
    /\ UNCHANGED <<registryVars, authVars, cacheVars, allocVars, gfefVars, utc, certificates, fingerprint_index, crl,
                   crl_last_update, issuing, revoking, crl_read, ocsp>>

\* Utc::now() advances.
UtcTick ==
    /\ utc < MaxUtc
    /\ utc' = utc + UtcStep
    /\ UNCHANGED <<registryVars, authVars, cacheVars, allocVars, gfefVars, certificates, fingerprint_index, crl,
                   crl_last_update, issuing, revoking, crl_read, cresp, ocsp>>

\* ------------------------------------------------------ OCSP responder
\* certificate_service.rs:33-35.
OCSP_CERT_STATUS_GOOD == 0
OCSP_CERT_STATUS_REVOKED == 1
OCSP_CERT_STATUS_UNKNOWN == 2
\* Bytes of a SHA-256 digest, characters of "%Y%m%d%H%M%S".
SHA256_LEN == 32
TIME_DIGITS == 14

\* `x as u8`.
U8(x) == x % 256

\* The first n elements of a byte sequence: iter().take(n).
Take(bytes, n) == SubSeq(bytes, 1, IF Len(bytes) < n THEN Len(bytes) ELSE n)

\* Sha256::finalize(): 32 bytes; their values have no part in the layout.
Sha256Digest(data) == [i \in 1..SHA256_LEN |-> 0]

\* The n low decimal digits of t, in ASCII.
RECURSIVE Digits(_, _)
Digits(t, n) ==
    IF n = 0 THEN <<>> ELSE Digits(t \div 10, n - 1) \o <<\H30 + (t % 10)>>

\* encode_generalized_time: "YYYYMMDDHHMMSSZ", 14 ASCII digits and 'Z'.
encode_generalized_time(timestamp_ms) ==
    Digits(timestamp_ms, TIME_DIGITS) \o <<\H5A>>

\* encode_length: the bytes it appends to its output.
encode_length_ShortOnly(length) == <<U8(length)>>

encode_length(length) ==
    IF length < 128 THEN <<U8(length)>>
    ELSE IF length < 256 THEN <<\H81, U8(length)>>
    ELSE <<\H82, U8(length \div 256), U8(length % 256)>>

\* result.push(tag); encode_length(&mut result, bytes.len()); result.extend(bytes).
Wrap(tag, bytes) == <<tag>> \o encode_length(Len(bytes)) \o bytes

\* build_cert_id.
build_cert_id(serial_number) ==
    LET sha256_oid == <<\H60, \H86, \H48, \H01, \H65, \H03, \H04, \H02, \H01>>
        issuer_hash == Sha256Digest("CYAN_FLAME_CA")
        key_hash == Sha256Digest("CYAN_FLAME_CA_KEY")
        serial_bytes == Take(serial_number, 16)
        bytes == <<\H30, U8(Len(sha256_oid) + 4), \H06, U8(Len(sha256_oid))>>
                 \o sha256_oid \o <<\H05, \H00>>
                 \o <<\H04, U8(Len(issuer_hash))>> \o issuer_hash
                 \o <<\H04, U8(Len(key_hash))>> \o key_hash
                 \o <<\H02, U8(Len(serial_bytes))>> \o serial_bytes
    IN Wrap(\H30, bytes)

\* build_single_response: its certStatus element.
cert_status_element(cert_status, this_update_ms) ==
    IF cert_status = OCSP_CERT_STATUS_GOOD THEN <<\H80, \H00>>
    ELSE IF cert_status = OCSP_CERT_STATUS_REVOKED
    THEN LET revoked_time == encode_generalized_time(this_update_ms)
         IN <<\HA1, \H0F, \H18, U8(Len(revoked_time))>> \o revoked_time
    ELSE <<\H82, \H00>>

\* build_single_response.
build_single_response(serial_number, cert_status, this_update_ms, next_update_ms) ==
    LET this_update == encode_generalized_time(this_update_ms)
        next_update == encode_generalized_time(next_update_ms)
        bytes == build_cert_id(serial_number)
                 \o cert_status_element(cert_status, this_update_ms)
                 \o <<\H18, U8(Len(this_update))>> \o this_update
                 \o <<\HA0, U8(Len(next_update) + 2), \H18, U8(Len(next_update))>>
                 \o next_update
    IN Wrap(\H30, bytes)

\* build_tbs_response_data.
build_tbs_response_data(serial_number, cert_status, this_update_ms, next_update_ms) ==
    LET responder_hash == Sha256Digest("CYAN_FLAME_OCSP_RESPONDER")
        produced_at == encode_generalized_time(this_update_ms)
        single_response == build_single_response(serial_number, cert_status,
                                                 this_update_ms, next_update_ms)
        bytes == <<\HA2, U8(Len(responder_hash) + 2), \H04, U8(Len(responder_hash))>>
                 \o responder_hash
                 \o <<\H18, U8(Len(produced_at))>> \o produced_at
                 \o Wrap(\H30, single_response)
    IN Wrap(\H30, bytes)

\* build_basic_ocsp_response.
build_basic_ocsp_response(serial_number, cert_status, this_update_ms, next_update_ms) ==
    LET sig_alg_oid == <<\H2A, \H86, \H48, \H86, \HF7, \H0D, \H01, \H01, \H0B>>
        sig_hash == Sha256Digest(<<serial_number, this_update_ms>>)
        bytes == build_tbs_response_data(serial_number, cert_status,
                                         this_update_ms, next_update_ms)
                 \o <<\H30, U8(Len(sig_alg_oid) + 4), \H06, U8(Len(sig_alg_oid))>>
                 \o sig_alg_oid \o <<\H05, \H00>>
                 \o <<\H03, U8(Len(sig_hash) + 1), \H00>> \o sig_hash
    IN Wrap(\H30, bytes)

\* build_response_bytes.
build_response_bytes(serial_number, cert_status, this_update_ms, next_update_ms) ==
    LET oid_bytes == <<\H2B, \H06, \H01, \H05, \H05, \H07, \H30, \H01, \H01>>
        basic_response == build_basic_ocsp_response(serial_number, cert_status,
                                                    this_update_ms, next_update_ms)
        bytes == <<\H06, U8(Len(oid_bytes))>> \o oid_bytes
                 \o Wrap(\H04, basic_response)
    IN Wrap(\H30, bytes)

\* build_ocsp_response_der.
build_ocsp_response_der(serial_number, cert_status, this_update_ms, next_update_ms) ==
    LET response_bytes == build_response_bytes(serial_number, cert_status,
                                               this_update_ms, next_update_ms)
        response == <<\H0A, \H01, \H00>> \o Wrap(\HA0, response_bytes)
    IN Wrap(\H30, response)

\* serial_number.as_bytes() of a stored serial: 32 ASCII hex digits.
AsBytes(serial_number) ==
    IF serial_number = EmptyString THEN <<>>
    ELSE [i \in 1..32 |->
            IF i > 1 THEN \H30
            ELSE IF serial_number[2] = "A1" THEN \H41
            ELSE IF serial_number[2] = "B2" THEN \H42 ELSE \H43]

\* check_certificate_ocsp.
CheckCertificateOcsp(serial_number) ==
    LET found == IF serial_number # EmptyString
                 THEN get_certificate(serial_number) ELSE None
        status == IF found # None
                  THEN IF found[1].revoked_at # None
                       THEN <<"revoked", OCSP_CERT_STATUS_REVOKED>>
                       ELSE IF found[1].expires_at < utc
                       THEN <<"expired", OCSP_CERT_STATUS_REVOKED>>
                       ELSE <<"good", OCSP_CERT_STATUS_GOOD>>
                  ELSE <<"unknown", OCSP_CERT_STATUS_UNKNOWN>>
        this_update_ms == utc
        next_update_ms == utc + 24
    IN /\ (serial_number # EmptyString => ~Locked)
       /\ cresp = NoCertResp
       /\ cresp' = [op                |-> "CheckCertificateOcsp",
                    serial_number     |-> serial_number,
                    status            |-> status[1],
                    ocsp_response_der |-> build_ocsp_response_der(
                                              AsBytes(serial_number), status[2],
                                              this_update_ms, next_update_ms),
                    this_update_ms    |-> this_update_ms,
                    next_update_ms    |-> next_update_ms]
       /\ UNCHANGED <<registryVars, authVars, cacheVars, allocVars, gfefVars, utc, certificates, fingerprint_index, crl,
                      crl_last_update, issuing, revoking, crl_read, ocsp>>

\* build_ocsp_response_der applied to a serial string and a status byte.
BuildOcspResponseDer(serial_number, cert_status, this_update_ms) ==
    /\ ocsp' = [serial_number |-> serial_number,
                cert_status   |-> cert_status,
                der           |-> build_ocsp_response_der(
                                      serial_number, cert_status, this_update_ms,
                                      this_update_ms + 24)]
    /\ UNCHANGED <<registryVars, authVars, cacheVars, allocVars, gfefVars, utc, certificates, fingerprint_index, crl,
                   crl_last_update, issuing, revoking, crl_read, cresp>>

\* ------------------------------------------- certificate specifications
\* Issue, revoke, the hand-over of responses and the clock.
Lifecycle ==
    \/ \E o \in Orgs, cn \in CommonNames, k \in IssueKeys, d \in ValidityDays :
           RequestCertificate(o, cn, k, d)
    \/ IssueIndex
    \/ \E s \in SerialRequests, r \in Reasons : RevokeCertificate(s, r)
    \/ RevokePush
    \/ RevokeStamp
    \/ Return
    \/ UtcTick

\* The authority under issue, renew, revoke and status reads.
CertNext ==
    \/ Lifecycle
    \/ \E pem \in PemRequests, k \in ApiKeys, d \in ValidityDays :
           RenewCertificate(pem, k, d)
    \/ \E s \in SerialRequests : CheckStatus(s)

CertInit == Init /\ svc = "calibration" /\ auth_enabled

CertSpec == CertInit /\ [][CertNext]_vars

\* The authority under issue, renew, revoke and reads of the revocation list.
CrlNext ==
    \/ Lifecycle
    \/ \E pem \in PemRequests, k \in ApiKeys, d \in ValidityDays :
           RenewCertificate(pem, k, d)
    \/ CrlReadEntries
    \/ CrlReadStamp

CrlSpec == CertInit /\ [][CrlNext]_vars

\* The authority under issue, revoke and the two status services.
StatusNext ==
    \/ Lifecycle
    \/ \E s \in SerialRequests, f \in FingerprintRequests :
           GetCertificateStatus(s, f)
    \/ \E s \in SerialRequests : CheckCertificateOcsp(s)

StatusSpec == CertInit /\ [][StatusNext]_vars

\* The DER encoder over serial strings, status bytes and times.
OcspSerials ==
    {[i \in 1..n |-> b] : n \in 0..MaxSerialLen, b \in {\H41, \HC3}}
OcspTimes == {0, MaxUtc}

OcspNext ==
    \E s \in OcspSerials, c \in 0..MaxCertStatus, t \in OcspTimes :
        BuildOcspResponseDer(s, c, t)

OcspSpec == CertInit /\ [][OcspNext]_vars

\* --------------------------------------------------- certificate claims
\* The status of serial in the store certs at time t: Unknown without an
\* entry, Revoked once a revocation is recorded, else by the expiry.
StatusOf(certs, serial, t) ==
    IF serial \notin DOMAIN certs THEN "Unknown"
    ELSE IF certs[serial].revoked_at # None THEN "Revoked"
    ELSE IF t >= certs[serial].expires_at THEN "Expired"
    ELSE "Valid"

\* C11: once a revocation is recorded for a serial, every later step leaves
\* its status Revoked, expired or not; and check_status answers Revoked for a
\* revoked entry, Expired for an unrevoked one whose expires_at the clock has
\* reached, Valid for any other entry.
C11_RevokedStaysRevoked ==
    [][/\ \A s \in DOMAIN certificates :
              certificates[s].revoked_at # None =>
                  /\ s \in DOMAIN certificates'
                  /\ current_status(certificates'[s], utc') = "Revoked"
       /\ \A s \in SerialRequests :
              CheckStatus(s) => cresp'.status = StatusOf(certificates, s, utc)
      ]_vars

\* A revoked certificate past its expiry was asked for and answered Revoked.
C11_Witness ==
    /\ cresp.op = "check_status"
    /\ cresp.status = "Revoked"
    /\ cresp.serial_number \in DOMAIN certificates
    /\ utc >= certificates[cresp.serial_number].expires_at
    /\ certificates[cresp.serial_number].revoked_at[1]
           < certificates[cresp.serial_number].expires_at

\* C12: a revoke call for a serial that is not in the store, or whose entry
\* is already revoked, answers success = false and leaves the store (so the
\* entry's revoked_at and reason), the revocation list and its this_update
\* timestamp exactly as they were.
C12_FailedRevokeChangesNothing ==
    [][\A s \in SerialRequests, r \in Reasons :
          (/\ RevokeCertificate(s, r)
           /\ (s \notin DOMAIN certificates \/ certificates[s].revoked_at # None))
          => /\ cresp'.op = "RevokeCertificate"
             /\ ~cresp'.success
             /\ certificates' = certificates
             /\ crl' = crl
             /\ crl_last_update' = crl_last_update
      ]_vars

\* A second revoke of a listed serial was refused at a later time than the
\* first.
C12_Witness ==
    /\ cresp.op = "RevokeCertificate"
    /\ ~cresp.success
    /\ cresp.error_message = "Certificate is already revoked"
    /\ Len(crl) = 1
    /\ crl[1].serial_number = cresp.serial_number
    /\ crl_last_update < utc

\* The serials whose entry records a revocation.
RevokedSerials == {s \in DOMAIN certificates : certificates[s].revoked_at # None}

\* C13: over issue, renew, revoke and reads of the list, with a clock that
\* does not run backward, no step shortens the revocation list or moves
\* crl_last_update back; the list changes only by the push of a revoke call,
\* which appends one entry; and when a revoke call returns success the list
\* holds exactly one entry per revoked certificate.
C13_CrlOnlyGrows ==
    [][/\ Len(crl') >= Len(crl)
       /\ crl_last_update' >= crl_last_update
       /\ (crl' # crl => /\ RevokePush
                         /\ Len(crl') = Len(crl) + 1
                         /\ SubSeq(crl', 1, Len(crl)) = crl)
       /\ (RevokeStamp => /\ Len(crl') = Cardinality(RevokedSerials)
                          /\ crl'[Len(crl')].serial_number = revoking.serial_number
                          /\ crl_last_update' = crl'[Len(crl')].revoked_at)
      ]_vars

\* Two certificates were revoked at different times and a read of the list
\* returned both.
C13_Witness ==
    /\ cresp.op = "GetCrl"
    /\ Len(cresp.entries) = 2
    /\ Len(crl) = 2
    /\ crl[1].revoked_at < crl[2].revoked_at
    /\ crl_last_update = crl[2].revoked_at
    /\ \E s \in DOMAIN certificates : certificates[s].org_id = "renewed-org"

\* C14: the triple get_crl returns is one state of the authority: this_update
\* is the revocation time of the last returned entry, or the time of
\* construction when no entry is returned, and next_update is 24 hours later.
C14_SnapshotIsOneState ==
    cresp.op = "GetCrl" =>
        /\ cresp.this_update =
               IF cresp.entries = <<>> THEN ConstructedAt
               ELSE cresp.entries[Len(cresp.entries)].revoked_at
        /\ cresp.next_update = cresp.this_update + CRL_NEXT_UPDATE_HOURS

\* C15: with serials that do not repeat, no step removes or replaces an entry
\* of the store or of the fingerprint index; an entry changes only by a
\* revoke of its serial, and then only in its status, revocation time and
\* reason; an entry that is added has a serial and a fingerprint no earlier
\* entry has, and is stored under its own serial.
C15_IssueNeverOverwrites ==
    [][/\ \A s \in DOMAIN certificates :
              /\ s \in DOMAIN certificates'
              /\ certificates'[s] # certificates[s] =>
                     /\ \E r \in Reasons : RevokeCertificate(s, r)
                     /\ [certificates'[s] EXCEPT !.status = "Valid",
                                                 !.revoked_at = None,
                                                 !.revocation_reason = None]
                            = certificates[s]
       /\ \A f \in DOMAIN fingerprint_index :
              /\ f \in DOMAIN fingerprint_index'
              /\ fingerprint_index'[f] = fingerprint_index[f]
              /\ get_certificate_by_fingerprint(f) # None
              /\ get_certificate_by_fingerprint(f)[1].fingerprint_sha256 = f
       /\ \A s \in DOMAIN certificates' \ DOMAIN certificates :
              /\ certificates'[s].serial_number = s
              /\ \A p \in DOMAIN certificates :
                     /\ certificates[p].serial_number # s
                     /\ certificates[p].fingerprint_sha256
                            # certificates'[s].fingerprint_sha256
      ]_vars

\* A second certificate was issued after the first had been revoked, and both
\* are in the store and in the index.
C15_Witness ==
    /\ issuing = NoCall
    /\ Cardinality(DOMAIN certificates) = 2
    /\ Cardinality(DOMAIN fingerprint_index) = 2
    /\ \E s, p \in DOMAIN certificates :
           /\ certificates[s].revoked_at # None
           /\ certificates[p].issued_at > certificates[s].revoked_at[1]

\* The stored certificates a renewal request refers to by their PEM.
PriorOf(pem) == {s \in DOMAIN certificates : certificates[s].certificate_pem = pem}

\* What a renewal of pem with api_key has to answer: NotFound, then
\* CredentialMismatch, then InvalidState, else success.
RenewOutcome(pem, api_key) ==
    IF PriorOf(pem) = {} THEN "Original certificate not found"
    ELSE LET old == certificates[CHOOSE s \in PriorOf(pem) : TRUE]
         IN IF old.bound_api_key_hash # Md5Hex(api_key)
            THEN "API key does not match the original certificate"
            ELSE IF old.revoked_at # None
            THEN "Cannot renew a revoked certificate"
            ELSE "ok"

\* C16: a renewal whose reference is empty or names no stored certificate,
\* whose credential differs from the bound one, or whose certificate is
\* revoked, fails with the error of the first of these that applies and adds
\* nothing to the store.
C16_RenewOnlyValidated ==
    [][\A pem \in PemRequests, k \in ApiKeys, d \in ValidityDays :
          (RenewCertificate(pem, k, d) /\ RenewOutcome(pem, k) # "ok")
          => /\ certificates' = certificates
             /\ cresp'.op = "RenewCertificate"
             /\ ~cresp'.success
             /\ cresp'.error_message = RenewOutcome(pem, k)
      ]_vars

\* C17: renewing with the PEM RequestCertificate returned for a certificate
\* that is stored, indexed and not revoked, with the credential it is bound
\* to, adds an entry with a new serial and the original's organization id
\* and common name.
C17_RenewIssuedSucceeds ==
    [][\A s \in DOMAIN certificates, k \in ApiKeys, d \in ValidityDays :
          (/\ RenewCertificate(certificates[s].certificate_pem, k, d)
           /\ certificates[s].fingerprint_sha256 \in DOMAIN fingerprint_index
           /\ certificates[s].revoked_at = None
           /\ certificates[s].bound_api_key_hash = Md5Hex(k))
          => \E n \in DOMAIN certificates' \ DOMAIN certificates :
                 /\ certificates'[n].org_id = certificates[s].org_id
                 /\ certificates'[n].common_name = certificates[s].common_name
      ]_vars

\* The status strings of get_certificate_status.
StatusName(status) ==
    IF status = "Valid" THEN "valid"
    ELSE IF status = "Expired" THEN "expired"
    ELSE IF status = "Revoked" THEN "revoked"
    ELSE "unknown"

\* The stored certificates a status request names, by serial or by an
\* indexed fingerprint.
NamedBy(serial_number, fingerprint_sha256) ==
    {c \in DOMAIN certificates : c = serial_number}
        \cup {fingerprint_index[f] : f \in DOMAIN fingerprint_index \cap {fingerprint_sha256}}

\* C18: a status request that names a stored certificate by its serial or by
\* its fingerprint is answered found = true with that certificate's status;
\* a request that names none is answered found = false, status unknown.
C18_StatusBySerialOrFingerprint ==
    [][\A s \in SerialRequests, f \in FingerprintRequests :
          (GetCertificateStatus(s, f) /\ (s = EmptyString \/ f = EmptyString))
          => /\ cresp'.found <=> NamedBy(s, f) # {}
             /\ NamedBy(s, f) = {} => cresp'.status = "unknown"
             /\ \A c \in NamedBy(s, f) :
                    cresp'.status = StatusName(StatusOf(certificates, c, utc))
      ]_vars

\* ------------------------------------------------------------ DER reader
\* The big-endian value of a byte sequence.
RECURSIVE BigEndian(_)
BigEndian(bytes) ==
    IF bytes = <<>> THEN 0
    ELSE 256 * BigEndian(SubSeq(bytes, 1, Len(bytes) - 1)) + bytes[Len(bytes)]

\* The DER length field of the element whose tag is at index i: its decoded
\* value and the number of bytes the field takes.
DerLength(bytes, i) ==
    IF bytes[i + 1] < 128
    THEN [value |-> bytes[i + 1], size |-> 1]
    ELSE [value |-> BigEndian(SubSeq(bytes, i + 2, i + 1 + (bytes[i + 1] - 128))),
          size  |-> 1 + (bytes[i + 1] - 128)]

\* The index of the first content byte of the element at i, and the index
\* after the element.
DerContent(bytes, i) == i + 1 + DerLength(bytes, i).size
DerNext(bytes, i) == DerContent(bytes, i) + DerLength(bytes, i).value

\* The index of the certStatus tag of an OCSP response: OCSPResponse,
\* responseStatus, [0], ResponseBytes, responseType, response, BasicOCSPResponse,
\* tbsResponseData, responderID, producedAt, responses, SingleResponse, certID.
CertStatusIndex(der) ==
    LET response_status == DerContent(der, 1)
        response_bytes  == DerContent(der, DerNext(der, response_status))
        response_type   == DerContent(der, response_bytes)
        basic_response  == DerContent(der, DerNext(der, response_type))
        tbs_data        == DerContent(der, basic_response)
        responder_id    == DerContent(der, tbs_data)
        produced_at     == DerNext(der, responder_id)
        responses       == DerNext(der, produced_at)
        single_response == DerContent(der, responses)
        cert_id         == DerContent(der, single_response)
    IN DerNext(der, cert_id)

\* The status the certStatus CHOICE of an OCSP response denotes.
CertStatusChoice(der) ==
    LET tag == der[CertStatusIndex(der)]
    IN IF tag = \H80 THEN "good"
       ELSE IF tag = \HA1 THEN "revoked"
       ELSE IF tag = \H82 THEN "unknown"
       ELSE "malformed"

\* C19: check_certificate_ocsp answers good, revoked or unknown: unknown for
\* a serial without a stored certificate, good for a Valid and revoked for a
\* Revoked one; and the certStatus element of its DER denotes the status its
\* status string names.
C19_OcspMatchesStatus ==
    [][\A s \in SerialRequests :
          CheckCertificateOcsp(s)
          => /\ cresp'.status \in {"good", "revoked", "unknown"}
             /\ StatusOf(certificates, s, utc) = "Unknown" => cresp'.status = "unknown"
             /\ StatusOf(certificates, s, utc) = "Valid" => cresp'.status = "good"
             /\ StatusOf(certificates, s, utc) = "Revoked" => cresp'.status = "revoked"
             /\ CertStatusChoice(cresp'.ocsp_response_der) = cresp'.status
      ]_vars

\* C20: the bytes build_ocsp_response_der returns for a serial string and a
\* status byte start with the SEQUENCE tag 0x30, followed by a DER length
\* field whose decoded value is the number of bytes after that field.
C20_OuterLengthMatches ==
    ocsp.der # <<>> =>
        /\ ocsp.der[1] = \H30
        /\ DerLength(ocsp.der, 1).value
               = Len(ocsp.der) - 1 - DerLength(ocsp.der, 1).size

\* A response for a revoked status and a serial of more than 16 bytes, whose
\* length takes the two-byte long form.
C20_Witness ==
    /\ ocsp.der # <<>>
    /\ ocsp.cert_status = OCSP_CERT_STATUS_REVOKED
    /\ Len(ocsp.serial_number) > 16
    /\ ocsp.der[2] = \H82
    /\ Len(ocsp.der) > 259

\* A constructed tag (bit 0x20): its content is a sequence of elements.
DerConstructed(tag) == (tag \div 32) % 2 = 1

\* The length field a content of n bytes has to carry: one byte below 128,
\* 0x81 and one byte below 256, 0x82 and two bytes otherwise.
DerLengthSize(n) == IF n < 128 THEN 1 ELSE IF n < 256 THEN 2 ELSE 3

\* The bytes from index i up to, not including, index end are a sequence of
\* elements, each with a length field of the right form that declares the
\* byte count of its content, and so are the contents of the constructed ones.
RECURSIVE DerWellFormed(_, _, _)
DerWellFormed(bytes, i, end) ==
    IF i = end THEN TRUE
    ELSE /\ i + 2 <= end
         /\ i + 2 + (IF bytes[i + 1] < 128 THEN 0 ELSE bytes[i + 1] - 128) <= end
         /\ DerLength(bytes, i).size = DerLengthSize(DerLength(bytes, i).value)
         /\ DerNext(bytes, i) <= end
         /\ DerConstructed(bytes[i]) =>
                DerWellFormed(bytes, DerContent(bytes, i), DerNext(bytes, i))
         /\ DerWellFormed(bytes, DerNext(bytes, i), end)

\* The index of the OCTET STRING that holds the BasicOCSPResponse.
ResponseOctetsIndex(der) ==
    LET response_status == DerContent(der, 1)
        response_bytes  == DerContent(der, DerNext(der, response_status))
        response_type   == DerContent(der, response_bytes)
    IN DerNext(der, response_type)

\* C21: in the bytes build_ocsp_response_der returns for a serial string and
\* one of the statuses good, revoked, unknown, every element at every level,
\* the BasicOCSPResponse inside the response OCTET STRING included, declares
\* the byte count of its content, in short form below 128 bytes and in the
\* 0x81 or 0x82 long form otherwise.
C21_EveryLengthMatches ==
    (ocsp.der # <<>> /\ ocsp.cert_status <= OCSP_CERT_STATUS_UNKNOWN) =>
        /\ DerWellFormed(ocsp.der, 1, Len(ocsp.der) + 1)
        /\ DerWellFormed(ocsp.der,
                         DerContent(ocsp.der, ResponseOctetsIndex(ocsp.der)),
                         DerNext(ocsp.der, ResponseOctetsIndex(ocsp.der)))


\* ------------------------------------------------- API key authentication
\* grpc/auth.rs.  An API key is modelled by the sequence of the parts its
\* text has between '-' characters; hash_key is SHA-256 in hex, taken as
\* injective.  Byte amounts are kept as whole TiB plus the bytes above them
\* (the sums of the model stay below one TiB in that second field).
\* Utc::now() of the key store stops at MaxAuthUtc, in steps of AuthStep
\* seconds; a key is validated while its request_count is below MaxRequests.
MaxAuthUtc == 90
AuthStep == 30
MaxRequests == 101

RATE_WINDOW_SECS == 60

free == [name |-> "free", max_allocation_tb |-> 2, rate_limit |-> 100,
         max_concurrent_allocations |-> 1]
starter == [name |-> "starter", max_allocation_tb |-> 24, rate_limit |-> 1000,
            max_concurrent_allocations |-> 5]
pro == [name |-> "pro", max_allocation_tb |-> 240, rate_limit |-> 10000,
        max_concurrent_allocations |-> 20]
enterprise == [name |-> "enterprise", max_allocation_tb |-> 574, rate_limit |-> 0,
               max_concurrent_allocations |-> 100]

from_name(name) ==
    CASE name = "free" -> free
      [] name = "starter" -> starter
      [] name = "pro" -> pro
      [] name = "enterprise" -> enterprise
      [] OTHER -> free

hash_key(key) == Sha256Hex(key)

Bytes(tb, rem) == [tb |-> tb, rem |-> rem]
BytesAdd(a, b) == [tb |-> a.tb + b.tb, rem |-> a.rem + b.rem]
\* a > max_tb * 1024 * 1024 * 1024 * 1024
ExceedsTb(a, max_tb) == a.tb > max_tb \/ (a.tb = max_tb /\ a.rem > 0)

\* The keys register_default_keys registers, in its order.
DefaultKeys ==
    << [api_key |-> <<"cf_free_test123">>, tier |-> "free", org_id |-> "test-free-org"],
       [api_key |-> <<"cf_starter_test123">>, tier |-> "starter", org_id |-> "test-starter-org"],
       [api_key |-> <<"cf_pro_test123">>, tier |-> "pro", org_id |-> "test-pro-org"],
       [api_key |-> <<"cf_ent_test123">>, tier |-> "enterprise", org_id |-> "test-enterprise-org"],
       [api_key |-> <<"test", "key", "123">>, tier |-> "enterprise", org_id |-> "legacy-test-org"] >>

UnregisteredKey == <<"cf_unknown">>

Ok(value) == [ok |-> TRUE, value |-> value]
Err(status) == [ok |-> FALSE, status |-> status]
Unit == <<>>

\* The entry register_key builds at time t.
NewApiKeyEntry(api_key, tier, org_id, t) ==
    [key_hash |-> hash_key(api_key),
     tier |-> tier,
     tier_config |-> from_name(tier),
     org_id |-> org_id,
     expires_at |-> None,
     rate_limit |-> from_name(tier).rate_limit,
     request_count |-> 0,
     last_request |-> t,
     enabled |-> TRUE,
     current_allocations |-> 0,
     allocated_memory_bytes |-> Bytes(0, 0)]

\* What validate_key returns when authentication is disabled.
DisabledEntry(t) ==
    [key_hash |-> <<"disabled">>,
     tier |-> "enterprise",
     tier_config |-> enterprise,
     org_id |-> "default",
     expires_at |-> None,
     rate_limit |-> 0,
     request_count |-> 0,
     last_request |-> t,
     enabled |-> TRUE,
     current_allocations |-> 0,
     allocated_memory_bytes |-> Bytes(0, 0)]

\* What is counted for a key since its stored window began.
NewLog == [validated |-> 0, intercepted |-> 0, granted |-> 0,
           granted_bytes |-> Bytes(0, 0)]

Min(a, b) == IF a <= b THEN a ELSE b

\* (now - entry.last_request).num_seconds() >= 60
window_elapsed_Above(entry, t) == t - entry.last_request > RATE_WINDOW_SECS
window_elapsed(entry, t) == t - entry.last_request >= RATE_WINDOW_SECS

\* entry.rate_limit > 0 && entry.request_count >= entry.rate_limit
rate_limited_Above(entry) ==
    entry.rate_limit > 0 /\ entry.request_count > entry.rate_limit
rate_limited(entry) ==
    entry.rate_limit > 0 /\ entry.request_count >= entry.rate_limit

\* The entry after validate_key's window reset, if the window has elapsed.
AfterReset(entry, t) ==
    IF window_elapsed(entry, t)
    THEN [entry EXCEPT !.request_count = 0, !.last_request = t]
    ELSE entry

\* validate_key that counts the request before it tests the rate limit.
validate_key_CountFirst(keys, key_hash, t) ==
    IF key_hash \in DOMAIN keys
    THEN LET counted == [AfterReset(keys[key_hash], t) EXCEPT !.request_count = @ + 1]
         IN IF rate_limited(AfterReset(keys[key_hash], t))
            THEN [keys |-> [keys EXCEPT ![key_hash] = counted],
                  result |-> Err("ResourceExhausted")]
            ELSE [keys |-> [keys EXCEPT ![key_hash] = counted],
                  result |-> Ok(counted)]
    ELSE [keys |-> keys, result |-> Err("Unauthenticated")]

\* validate_key under the write lock at time t: the store it leaves and the
\* result it returns.
validate_key(keys, key_hash, t) ==
    IF key_hash \in DOMAIN keys
    THEN LET entry == keys[key_hash]
             reset == AfterReset(entry, t)
             counted == [reset EXCEPT !.request_count = @ + 1]
         IN IF ~ entry.enabled
            THEN [keys |-> keys, result |-> Err("PermissionDenied")]
            ELSE IF entry.expires_at # None /\ t > entry.expires_at[1]
            THEN [keys |-> keys, result |-> Err("PermissionDenied")]
            ELSE IF rate_limited(reset)
            THEN [keys |-> [keys EXCEPT ![key_hash] = reset],
                  result |-> Err("ResourceExhausted")]
            ELSE [keys |-> [keys EXCEPT ![key_hash] = counted],
                  result |-> Ok(counted)]
    ELSE [keys |-> keys, result |-> Err("Unauthenticated")]

\* The log after a validate_key call that found the store `before` and left
\* it `after`: a reset begins a new window, a success is counted.
LogValidate(log, before, after, key_hash, result) ==
    IF key_hash \notin DOMAIN after
    THEN log
    ELSE LET base == IF after[key_hash].last_request # before[key_hash].last_request
                     THEN NewLog ELSE log[key_hash]
         IN Insert(log, key_hash,
                   IF result.ok THEN [base EXCEPT !.validated = @ + 1] ELSE base)

\* check_allocation_allowed's two checks on the entry validate_key returned.
allocation_allowed(entry, requested_bytes) ==
    IF entry.current_allocations >= entry.tier_config.max_concurrent_allocations
    THEN Err("ResourceExhausted")
    ELSE IF ExceedsTb(BytesAdd(entry.allocated_memory_bytes, requested_bytes),
                      entry.tier_config.max_allocation_tb)
    THEN Err("ResourceExhausted")
    ELSE Ok(Unit)

\* register_key up to `self.api_keys.write().await`: the entry is built and
\* the write lock taken.
RegisterKeyLock(c, api_key, tier, org_id) ==
    /\ auth_call[c] = NoCall
    /\ keys_lock = "none"
    /\ keys_lock' = c
    /\ auth_call' = [auth_call EXCEPT ![c] =
           [pc |-> "register",
            entry |-> NewApiKeyEntry(api_key, tier, org_id, auth_utc)]]
    /\ UNCHANGED <<registryVars, certVars, cacheVars, allocVars, gfefVars, auth_enabled, api_keys,
                   auth_utc, aresp, auth_log>>

\* register_key: insert(key_hash, entry), the guard dropped.
RegisterKey(c) ==
    /\ auth_call[c].pc = "register"
    /\ api_keys' = Insert(api_keys, auth_call[c].entry.key_hash, auth_call[c].entry)
    /\ auth_log' = Insert(auth_log, auth_call[c].entry.key_hash, NewLog)
    /\ keys_lock' = "none"
    /\ auth_call' = [auth_call EXCEPT ![c] = NoCall]
    /\ UNCHANGED <<registryVars, certVars, cacheVars, allocVars, gfefVars, auth_enabled, auth_utc, aresp>>

\* register_default_keys: the next of its five register_key calls.
RegisterDefaultKeys(c) ==
    \E i \in DOMAIN DefaultKeys :
        /\ \A j \in 1..(i - 1) : hash_key(DefaultKeys[j].api_key) \in DOMAIN api_keys
        /\ hash_key(DefaultKeys[i].api_key) \notin DOMAIN api_keys
        /\ RegisterKeyLock(c, DefaultKeys[i].api_key, DefaultKeys[i].tier,
                           DefaultKeys[i].org_id)

\* validate_key up to `self.api_keys.write().await`, called by itself
\* (op = "validate_key") or by check_allocation_allowed; with authentication
\* disabled it returns at once.
BeginValidate(c, op, api_key, requested_bytes) ==
    /\ auth_call[c] = NoCall
    /\ IF ~ auth_enabled
       THEN /\ aresp' = [op |-> op, key_hash |-> hash_key(api_key),
                         result |-> IF op = "validate_key"
                                    THEN Ok(DisabledEntry(auth_utc))
                                    ELSE allocation_allowed(DisabledEntry(auth_utc),
                                                            requested_bytes)]
            /\ UNCHANGED <<keys_lock, auth_call>>
       ELSE /\ keys_lock = "none"
            /\ hash_key(api_key) \in DOMAIN api_keys =>
                   api_keys[hash_key(api_key)].request_count < MaxRequests
            /\ keys_lock' = c
            /\ auth_call' = [auth_call EXCEPT ![c] =
                   [pc |-> "validate", op |-> op, key_hash |-> hash_key(api_key),
                    requested_bytes |-> requested_bytes]]
            /\ aresp' = aresp
    /\ UNCHANGED <<registryVars, certVars, cacheVars, allocVars, gfefVars, auth_enabled, api_keys,
                   auth_utc, auth_log>>

ValidateKeyLock(c, api_key) == BeginValidate(c, "validate_key", api_key, Bytes(0, 0))

CheckAllocationLock(c, api_key, requested_bytes) ==
    BeginValidate(c, "check_allocation_allowed", api_key, requested_bytes)

\* validate_key under the lock, through its return.
ValidateKey(c) ==
    /\ auth_call[c].pc = "validate"
    /\ auth_call[c].op = "validate_key"
    /\ LET v == validate_key(api_keys, auth_call[c].key_hash, auth_utc)
       IN /\ api_keys' = v.keys
          /\ aresp' = [op |-> "validate_key", key_hash |-> auth_call[c].key_hash,
                       result |-> v.result]
          /\ auth_log' = LogValidate(auth_log, api_keys, v.keys,
                                     auth_call[c].key_hash, v.result)
    /\ keys_lock' = "none"
    /\ auth_call' = [auth_call EXCEPT ![c] = NoCall]
    /\ UNCHANGED <<registryVars, certVars, cacheVars, allocVars, gfefVars, auth_enabled, auth_utc>>

\* The log after check_allocation_allowed answered `result` for a request.
LogGrant(log, key_hash, result, requested_bytes, config) ==
    IF key_hash \in DOMAIN log /\ result.ok
    THEN [log EXCEPT ![key_hash].granted =
                         Min(@ + 1, config.max_concurrent_allocations + 1),
                     ![key_hash].granted_bytes =
                         IF ExceedsTb(@, config.max_allocation_tb)
                         THEN @ ELSE BytesAdd(@, requested_bytes)]
    ELSE log

\* check_allocation_allowed: validate_key under the lock, then the two checks
\* on the entry it returned.
CheckAllocationAllowed(c) ==
    /\ auth_call[c].pc = "validate"
    /\ auth_call[c].op = "check_allocation_allowed"
    /\ LET v == validate_key(api_keys, auth_call[c].key_hash, auth_utc)
           result == IF v.result.ok
                     THEN allocation_allowed(v.result.value, auth_call[c].requested_bytes)
                     ELSE v.result
           logged == LogValidate(auth_log, api_keys, v.keys,
                                 auth_call[c].key_hash, v.result)
       IN /\ api_keys' = v.keys
          /\ aresp' = [op |-> "check_allocation_allowed",
                       key_hash |-> auth_call[c].key_hash,
                       requested_bytes |-> auth_call[c].requested_bytes,
                       result |-> result]
          /\ auth_log' = IF v.result.ok
                         THEN LogGrant(logged, auth_call[c].key_hash, result,
                                       auth_call[c].requested_bytes,
                                       v.result.value.tier_config)
                         ELSE logged
    /\ keys_lock' = "none"
    /\ auth_call' = [auth_call EXCEPT ![c] = NoCall]
    /\ UNCHANGED <<registryVars, certVars, cacheVars, allocVars, gfefVars, auth_enabled, auth_utc>>

\* What the interceptor answers once it has a credential and try_read has
\* succeeded.
check_entry(keys, key_hash, t) ==
    IF key_hash \in DOMAIN keys
    THEN IF ~ keys[key_hash].enabled
         THEN Err("PermissionDenied")
         ELSE IF keys[key_hash].expires_at # None /\ t > keys[key_hash].expires_at[1]
         THEN Err("PermissionDenied")
         ELSE Ok(Unit)
    ELSE Err("Unauthenticated")

\* AuthInterceptor::call for a request whose metadata carries `credential`
\* (None: neither header), while `holder` holds the write lock.
call_FailClosed(credential, holder, keys, t) ==
    IF ~ auth_enabled THEN Ok(Unit)
    ELSE IF credential = None THEN Err("Unauthenticated")
    ELSE IF holder # "none" THEN Err("Unavailable")
    ELSE check_entry(keys, hash_key(credential[1]), t)
call(credential, holder, keys, t) ==
    IF ~ auth_enabled THEN Ok(Unit)
    ELSE IF credential = None THEN Err("Unauthenticated")
    ELSE IF holder # "none" THEN Ok(Unit)
    ELSE check_entry(keys, hash_key(credential[1]), t)

\* The log after the interceptor let a request with this key through.
LogIntercept(log, keys, key_hash, t) ==
    IF key_hash \in DOMAIN keys /\ key_hash \in DOMAIN log
       /\ ~ window_elapsed(keys[key_hash], t)
    THEN [log EXCEPT ![key_hash].intercepted = Min(@ + 1, keys[key_hash].rate_limit + 1)]
    ELSE log

\* One request through the interceptor.
Intercept(credential) ==
    /\ aresp' = [op |-> "call", credential |-> credential,
                 result |-> call(credential, keys_lock, api_keys, auth_utc)]
    /\ auth_log' = IF auth_enabled /\ credential # None
                      /\ call(credential, keys_lock, api_keys, auth_utc).ok
                   THEN LogIntercept(auth_log, api_keys, hash_key(credential[1]), auth_utc)
                   ELSE auth_log
    /\ UNCHANGED <<registryVars, certVars, cacheVars, allocVars, gfefVars, auth_enabled, api_keys,
                   keys_lock, auth_utc, auth_call>>

\* Utc::now() advances.
AuthTick ==
    /\ auth_utc + AuthStep <= MaxAuthUtc
    /\ auth_utc' = auth_utc + AuthStep
    /\ UNCHANGED <<registryVars, certVars, cacheVars, allocVars, gfefVars, auth_enabled, api_keys,
                   keys_lock, auth_call, aresp, auth_log>>

\* ----------------------------------------------- tier check of a request
\* grpc/calibration.rs validate_api_key_and_tier, on the request's api_key
\* and subscription_tier fields.
to_uppercase(s) ==
    CASE s = "enterprise" -> "ENTERPRISE"
      [] s = "professional" -> "PROFESSIONAL"
      [] s = "standard" -> "STANDARD"
      [] s = "basic" -> "BASIC"
      [] s = "pro" -> "PRO"
      [] s = "starter" -> "STARTER"
      [] s = "free" -> "FREE"
      [] OTHER -> s

tier_level(t) ==
    CASE t = "ENTERPRISE" -> 4
      [] t = "PROFESSIONAL" -> 3
      [] t = "STANDARD" -> 2
      [] t = "BASIC" -> 1
      [] OTHER -> 0

starts_with_cyan_flame(api_key) ==
    Len(api_key) >= 3 /\ api_key[1] = "CYAN" /\ api_key[2] = "FLAME"

validate_api_key_and_tier(api_key, tier) ==
    IF api_key = <<"">> THEN Err("Unauthenticated")
    ELSE IF ~ starts_with_cyan_flame(api_key) THEN Err("Unauthenticated")
    ELSE IF Len(api_key) < 4 THEN Err("Unauthenticated")
    ELSE IF tier_level(to_uppercase(api_key[3])) = 0 THEN Err("Unauthenticated")
    ELSE IF tier_level(to_uppercase(tier)) > tier_level(to_uppercase(api_key[3]))
    THEN Err("PermissionDenied")
    ELSE Ok(Unit)

\* The keys and tiers requests are sent with.
RequestKeys ==
    {DefaultKeys[i].api_key : i \in DOMAIN DefaultKeys} \cup
    { <<"">>, <<"CYAN", "FLAME", "ENTERPRISE", "a1b2">>,
      <<"CYAN", "FLAME", "PROFESSIONAL", "a1b2">>,
      <<"CYAN", "FLAME", "pro", "a1b2">>, <<"CYAN", "FLAME", "BASIC">> }
RequestTiers ==
    {"free", "starter", "pro", "enterprise", "ENTERPRISE", "professional", "basic"}

\* get_calibration_matrix with the request's api_key and subscription_tier.
GetCalibrationMatrix(i, api_key, tier) ==
    /\ exists[i]
    /\ aresp' = [op |-> "get_calibration_matrix", api_key |-> api_key,
                 tier |-> tier, result |-> validate_api_key_and_tier(api_key, tier)]
    /\ resp' = IF validate_api_key_and_tier(api_key, tier).ok
               THEN [op |-> "get", inst |-> i, matrix |-> current_matrix[i], at |-> now]
               ELSE resp
    /\ UNCHANGED <<certVars, cacheVars, allocVars, gfefVars, auth_enabled, api_keys, keys_lock, auth_utc,
                   auth_call, auth_log, svc, now, server, exists, routed, version,
                   current_matrix, matrix_broadcast, task, rx, received, pending>>

\* ------------------------------------------------- authentication specs
AuthInit == Init /\ svc = "calibration"
KeyedInit == AuthInit /\ auth_enabled

FreeKey == DefaultKeys[1]
EnterpriseKey == DefaultKeys[4]

\* Validation of one rate-limited key by two callers.
RateNext ==
    \/ \E c \in AuthCallers :
           /\ hash_key(FreeKey.api_key) \notin DOMAIN api_keys
           /\ RegisterKeyLock(c, FreeKey.api_key, FreeKey.tier, FreeKey.org_id)
    \/ \E c \in AuthCallers : RegisterKey(c)
    \/ \E c \in AuthCallers : ValidateKeyLock(c, FreeKey.api_key)
    \/ \E c \in AuthCallers : ValidateKey(c)
    \/ AuthTick

RateSpec == KeyedInit /\ [][RateNext]_vars


\* The stored entry is enabled, unexpired at time t and has a rate limit.
Limited(entry, t) ==
    /\ entry.enabled
    /\ entry.expires_at = None \/ t <= entry.expires_at[1]
    /\ entry.rate_limit > 0

\* C22: for an enabled, unexpired key with rate limit N > 0, a validate_key
\* call made less than 60 seconds after the stored window start succeeds if
\* fewer than N calls have succeeded since that window began and fails with
\* ResourceExhausted otherwise, whichever callers made the calls; the stored
\* request_count and the number of successes in a window never exceed N.
C22_FirstNSucceed ==
    /\ [](\A h \in DOMAIN api_keys :
             api_keys[h].rate_limit > 0 =>
                 /\ api_keys[h].request_count <= api_keys[h].rate_limit
                 /\ auth_log[h].validated <= api_keys[h].rate_limit)
    /\ [][\A c \in AuthCallers :
             (/\ ValidateKey(c)
              /\ auth_call[c].key_hash \in DOMAIN api_keys
              /\ Limited(api_keys[auth_call[c].key_hash], auth_utc)
              /\ auth_utc - api_keys[auth_call[c].key_hash].last_request < RATE_WINDOW_SECS)
             => LET h == auth_call[c].key_hash
                IN IF auth_log[h].validated < api_keys[h].rate_limit
                   THEN /\ aresp'.result.ok
                        /\ auth_log'[h].validated = auth_log[h].validated + 1
                   ELSE aresp'.result = Err("ResourceExhausted")]_vars

C22_Witness ==
    /\ aresp.op = "validate_key"
    /\ aresp.result = Err("ResourceExhausted")
    /\ aresp.key_hash \in DOMAIN api_keys
    /\ auth_log[aresp.key_hash].validated = api_keys[aresp.key_hash].rate_limit
    /\ auth_utc - api_keys[aresp.key_hash].last_request < RATE_WINDOW_SECS

\* C23: a validate_key call on an enabled, unexpired key with rate limit
\* N > 0 made 60 seconds or more after the stored window start sets the
\* window start to the time of the call, leaves request_count at 1 (reset
\* to 0, then counted) and succeeds, however many calls the old window had;
\* a call made less than 60 seconds after the window start leaves the window
\* start alone and does not lower request_count.
C23_WindowResets ==
    [][\A c \in AuthCallers :
          (/\ ValidateKey(c)
           /\ auth_call[c].key_hash \in DOMAIN api_keys
           /\ Limited(api_keys[auth_call[c].key_hash], auth_utc))
          => LET h == auth_call[c].key_hash
             IN IF auth_utc - api_keys[h].last_request >= RATE_WINDOW_SECS
                THEN /\ api_keys'[h].last_request = auth_utc
                     /\ api_keys'[h].request_count = 1
                     /\ aresp'.result.ok
                ELSE /\ api_keys'[h].last_request = api_keys[h].last_request
                     /\ api_keys'[h].request_count >= api_keys[h].request_count]_vars

\* The key was registered at 0, and a call at 60 or later was let through
\* as the first of a new window.
C23_Witness ==
    /\ aresp.op = "validate_key"
    /\ aresp.result.ok
    /\ aresp.result.value.request_count = 1
    /\ aresp.result.value.last_request >= RATE_WINDOW_SECS
    /\ aresp.result.value.last_request = auth_utc


\* Startup registers the default keys, and artifact requests arrive.
TierNext ==
    \/ RegisterDefaultKeys("c1")
    \/ RegisterKey("c1")
    \/ \E api_key \in RequestKeys, tier \in RequestTiers :
           GetCalibrationMatrix("owned", api_key, tier)

TierSpec == KeyedInit /\ [][TierNext]_vars

TierNames == {"free", "starter", "pro", "enterprise"}

TierRank(name) ==
    CASE name = "free" -> 1
      [] name = "starter" -> 2
      [] name = "pro" -> 3
      [] name = "enterprise" -> 4

\* C24: an artifact request sent with a registered key of tier K for tier T
\* (both among free, starter, pro, enterprise) is accepted exactly when K is
\* at least T in the order enterprise > pro > starter > free, and is refused
\* with PermissionDenied otherwise.
C24_TierOrder ==
    (/\ aresp.op = "get_calibration_matrix"
     /\ hash_key(aresp.api_key) \in DOMAIN api_keys
     /\ aresp.tier \in TierNames)
    => IF TierRank(api_keys[hash_key(aresp.api_key)].tier) >= TierRank(aresp.tier)
       THEN aresp.result.ok
       ELSE aresp.result = Err("PermissionDenied")


\* The credentials requests reach the interceptor with.
Credentials == {None, Some(EnterpriseKey.api_key), Some(UnregisteredKey)}

\* Requests pass the interceptor while callers register and validate keys.
InterceptNext ==
    \/ \E c \in AuthCallers :
           RegisterKeyLock(c, EnterpriseKey.api_key, EnterpriseKey.tier,
                           EnterpriseKey.org_id)
    \/ \E c \in AuthCallers : RegisterKey(c)
    \/ \E c \in AuthCallers, api_key \in {EnterpriseKey.api_key, UnregisteredKey} :
           ValidateKeyLock(c, api_key)
    \/ \E c \in AuthCallers : ValidateKey(c)
    \/ \E credential \in Credentials : Intercept(credential)

InterceptSpec == AuthInit /\ [][InterceptNext]_vars

\* The credential names a stored key that is enabled and unexpired at t.
ValidCredential(credential, keys, t) ==
    /\ credential # None
    /\ hash_key(credential[1]) \in DOMAIN keys
    /\ keys[hash_key(credential[1])].enabled
    /\ \/ keys[hash_key(credential[1])].expires_at = None
       \/ t <= keys[hash_key(credential[1])].expires_at[1]

\* C25: with authentication enabled, a request the interceptor has let
\* through carried a credential, and the credential's key is registered,
\* enabled and unexpired, whatever register_key and validate_key calls run
\* at the same time.
C25_OnlyValidCredentialsPass ==
    (auth_enabled /\ aresp.op = "call" /\ aresp.result.ok)
    => ValidCredential(aresp.credential, api_keys, auth_utc)

\* C26: the interceptor answers in every state, whoever holds the key
\* store's lock; with authentication enabled and a credential present it
\* allows the request unchecked when the write lock is held (try_read
\* fails), and otherwise answers Unauthenticated for a key that is not
\* registered, PermissionDenied for a disabled or expired one, and allows
\* the request for any other.
C26_NeverWaits ==
    /\ [](\A credential \in Credentials : ENABLED Intercept(credential))
    /\ [][\A credential \in Credentials :
             (Intercept(credential) /\ auth_enabled /\ credential # None)
             => aresp'.result =
                    IF keys_lock # "none" THEN Ok(Unit)
                    ELSE IF hash_key(credential[1]) \notin DOMAIN api_keys
                    THEN Err("Unauthenticated")
                    ELSE IF ValidCredential(credential, api_keys, auth_utc)
                    THEN Ok(Unit)
                    ELSE Err("PermissionDenied")]_vars

\* A request was allowed unchecked while a caller held the write lock.
C26_Witness ==
    /\ auth_enabled
    /\ aresp.op = "call"
    /\ aresp.credential # None
    /\ aresp.result.ok
    /\ keys_lock # "none"
    /\ ~ ValidCredential(aresp.credential, api_keys, auth_utc)


\* Requests with the free-tier key reach the interceptor as time passes.
BoundaryNext ==
    \/ \E c \in AuthCallers :
           /\ hash_key(FreeKey.api_key) \notin DOMAIN api_keys
           /\ RegisterKeyLock(c, FreeKey.api_key, FreeKey.tier, FreeKey.org_id)
    \/ \E c \in AuthCallers : RegisterKey(c)
    \/ \E credential \in {None, Some(FreeKey.api_key)} : Intercept(credential)
    \/ AuthTick

BoundarySpec == KeyedInit /\ [][BoundaryNext]_vars

\* C27: with authentication enabled, for a key with rate limit N > 0 the
\* interceptor lets at most N requests carrying the key through within the
\* 60 seconds after the key's window start.
C27_BoundaryRateLimited ==
    auth_enabled =>
        \A h \in DOMAIN api_keys :
            api_keys[h].rate_limit > 0 =>
                auth_log[h].intercepted <= api_keys[h].rate_limit


\* The byte counts allocations are asked for: 1 TiB, 2 TiB, 2 TiB and a byte.
RequestedBytes == {Bytes(1, 0), Bytes(2, 0), Bytes(2, 1)}

\* One caller asks for allocations on the free-tier key, one call after another.
AllocNext ==
    \/ /\ hash_key(FreeKey.api_key) \notin DOMAIN api_keys
       /\ RegisterKeyLock("c1", FreeKey.api_key, FreeKey.tier, FreeKey.org_id)
    \/ RegisterKey("c1")
    \/ \E requested_bytes \in RequestedBytes :
           CheckAllocationLock("c1", FreeKey.api_key, requested_bytes)
    \/ CheckAllocationAllowed("c1")

AllocSpec == KeyedInit /\ [][AllocNext]_vars

\* C28: the check_allocation_allowed calls that have succeeded on a key,
\* none of whose allocations has been released, are at most
\* max_concurrent_allocations and their bytes together at most
\* max_allocation_tb TiB.
C28_AllocationsCapped ==
    \A h \in DOMAIN api_keys :
        /\ auth_log[h].granted <= api_keys[h].tier_config.max_concurrent_allocations
        /\ ~ ExceedsTb(auth_log[h].granted_bytes,
                       api_keys[h].tier_config.max_allocation_tb)


\* ------------------------------------------------------- UAO-QTCAM cache
\* uao_qtcam_cache.rs.  The cache is built as the module's tests build it,
\* UaoQtcamCache::new(1024 * 1024, 250.0); values and keys stay far below
\* max_size, so evict_if_needed always returns at its first test.  Every
\* entry is stored with ttl None, for which get's expiry test is false; the
\* entry's timestamps and access count, which feed only the expiry test and
\* the eviction score, are left out.
\* incr is called on a key at most MaxIncr times, MaxRaceIncr times where
\* two threads race; each statistics counter is raised to MaxStat at most.
MaxIncr == 12
MaxRaceIncr == 2
MaxStat == 1

MAX_SIZE == 1048576
COMPRESSION_RATIO == 250
HEADER_LEN == 16

Max(a, b) == IF a >= b THEN a ELSE b

RECURSIVE SumBytes(_)
SumBytes(data) == IF data = <<>> THEN 0 ELSE Head(data) + SumBytes(Tail(data))

\* The first n bytes of x.to_le_bytes().
RECURSIVE to_le_bytes(_, _)
to_le_bytes(x, n) ==
    IF n = 0 THEN <<>> ELSE <<x % 256>> \o to_le_bytes(x \div 256, n - 1)

\* The bytes of data at the 0-based positions that are multiples of rate.
RECURSIVE Sampled(_, _, _)
Sampled(data, rate, i) ==
    IF i >= Len(data) THEN <<>>
    ELSE (IF i % rate = 0 THEN <<data[i + 1]>> ELSE <<>>) \o Sampled(data, rate, i + 1)

SampleRate(data) ==
    Max(1, Len(data) \div Max(1, Len(data) \div COMPRESSION_RATIO))

\* compress: length, checksum, then every sample_rate-th byte.
compress(data) ==
    to_le_bytes(Len(data), 8) \o to_le_bytes(SumBytes(data), 8)
        \o Sampled(data, SampleRate(data), 0)

\* decompress's loop from position i with sample_idx samples used.
RECURSIVE Reconstruct(_, _, _, _, _, _)
Reconstruct(samples, sample_rate, original_size, i, sample_idx, result) ==
    IF i >= original_size THEN result
    ELSE IF i % sample_rate = 0 /\ sample_idx < Len(samples)
    THEN Reconstruct(samples, sample_rate, original_size, i + 1, sample_idx + 1,
                     Append(result, samples[sample_idx + 1]))
    ELSE Reconstruct(samples, sample_rate, original_size, i + 1, sample_idx,
                     Append(result, IF result # <<>> THEN result[Len(result)] ELSE 0))

decompress(compressed, original_size) ==
    IF Len(compressed) < HEADER_LEN
    THEN [i \in 1..original_size |-> 0]
    ELSE LET samples == SubSeq(compressed, HEADER_LEN + 1, Len(compressed))
         IN Reconstruct(samples,
                        Max(1, original_size \div Max(1, Len(samples))),
                        original_size, 0, 0, <<>>)

\* i64::to_string of a counter that is not negative, as ASCII bytes.
RECURSIVE to_string(_)
to_string(counter) ==
    IF counter < 10 THEN <<\H30 + counter>>
    ELSE Append(to_string(counter \div 10), \H30 + (counter % 10))

IsDigit(b) == b >= \H30 /\ b <= \H39

RECURSIVE DigitsValue(_)
DigitsValue(bytes) ==
    IF bytes = <<>> THEN 0
    ELSE 10 * DigitsValue(SubSeq(bytes, 1, Len(bytes) - 1))
         + (bytes[Len(bytes)] - \H30)

\* String::from_utf8_lossy(value).parse::<i64>().unwrap_or(0): an optional
\* sign and at least one digit, anything else is 0.
parse_or_zero(bytes) ==
    LET signed == bytes # <<>> /\ bytes[1] \in {\H2B, \H2D}
        digits == IF signed THEN Tail(bytes) ELSE bytes
    IN IF digits # <<>> /\ \A i \in DOMAIN digits : IsDigit(digits[i])
       THEN IF signed /\ bytes[1] = \H2D THEN 0 - DigitsValue(digits)
            ELSE DigitsValue(digits)
       ELSE 0

NewCacheEntry(value, ttl) ==
    [compressed_value |-> compress(value),
     original_size |-> Len(value),
     ttl |-> IF ttl = None THEN 0 ELSE ttl[1]]

Remove(map, key) == [k \in DOMAIN map \ {key} |-> map[k]]

\* stats.entry_count, compressed_bytes and original_bytes as
\* update_stats_internal computes them.
RECURSIVE OriginalBytes(_, _)
OriginalBytes(map, keys) ==
    IF keys = {} THEN 0
    ELSE LET k == CHOOSE k \in keys : TRUE
         IN map[k].original_size + OriginalBytes(map, keys \ {k})

update_stats_internal(s) ==
    [s EXCEPT !.entry_count = Cardinality(DOMAIN cache),
              !.compressed_bytes = current_size,
              !.original_bytes = OriginalBytes(cache, DOMAIN cache)]

\* std::sync::RwLock: a writer excludes everyone, readers exclude writers.
CanWrite(l) == locks[l].writer = "none" /\ locks[l].readers = {}
CanRead(l) == locks[l].writer = "none"

Idle(t) == thread[t].pc \in {"none", "returned"}
Returned(op, key, ret) == [pc |-> "returned", op |-> op, key |-> key, ret |-> ret]

\* ---- set, and the set incr makes for a key that is not there
\* set through evict_if_needed, which reads current_size and returns.
Set(t, key, value, ttl) ==
    /\ Idle(t)
    /\ stats.sets < MaxStat
    /\ CanRead("current_size")
    /\ current_size + Len(compress(value)) <= MAX_SIZE
    /\ thread' = [thread EXCEPT ![t] =
           [pc |-> "set_cache", op |-> "set", key |-> key, value |-> value,
            ttl |-> ttl, ret |-> Unit]]
    /\ UNCHANGED <<registryVars, certVars, authVars, allocVars, gfefVars, cache, current_size, stats,
                   locks, incr_calls>>

\* set: self.cache.write()
SetLockCache(t) ==
    /\ thread[t].pc = "set_cache"
    /\ CanWrite("cache")
    /\ locks' = [locks EXCEPT !["cache"].writer = t]
    /\ thread' = [thread EXCEPT ![t].pc = "set_size"]
    /\ UNCHANGED <<registryVars, certVars, authVars, allocVars, gfefVars, cache, current_size, stats,
                   incr_calls>>

\* set: self.current_size.write(), the size and the map updated, both
\* guards dropped.
SetStore(t) ==
    /\ thread[t].pc = "set_size"
    /\ CanWrite("current_size")
    /\ current_size' =
           (current_size
            - (IF thread[t].key \in DOMAIN cache
               THEN Len(cache[thread[t].key].compressed_value) ELSE 0))
           + Len(compress(thread[t].value))
    /\ cache' = Insert(cache, thread[t].key,
                       NewCacheEntry(thread[t].value, thread[t].ttl))
    /\ locks' = [locks EXCEPT !["cache"].writer = "none"]
    /\ thread' = [thread EXCEPT ![t] =
           [pc |-> "stats", op |-> thread[t].op, key |-> thread[t].key,
            ret |-> thread[t].ret, stat |-> "sets"]]
    /\ incr_calls' = IF thread[t].op = "set"
                     THEN [incr_calls EXCEPT ![thread[t].key].pure = FALSE]
                     ELSE incr_calls
    /\ UNCHANGED <<registryVars, certVars, authVars, allocVars, gfefVars, stats>>

\* set and get: self.stats.write(), and the call's counter incremented.
StatsLock(t) ==
    /\ thread[t].pc = "stats"
    /\ CanWrite("stats")
    /\ locks' = [locks EXCEPT !["stats"].writer = t]
    /\ stats' = [stats EXCEPT ![thread[t].stat] = @ + 1]
    /\ thread' = [thread EXCEPT ![t] =
           [pc |-> "stats_cache", op |-> thread[t].op, key |-> thread[t].key,
            ret |-> thread[t].ret]]
    /\ UNCHANGED <<registryVars, certVars, authVars, allocVars, gfefVars, cache, current_size, incr_calls>>

\* stats(): self.stats.write()
Stats(t) ==
    /\ Idle(t)
    /\ CanWrite("stats")
    /\ locks' = [locks EXCEPT !["stats"].writer = t]
    /\ thread' = [thread EXCEPT ![t] =
           [pc |-> "stats_cache", op |-> "stats", key |-> "", ret |-> Unit]]
    /\ UNCHANGED <<registryVars, certVars, authVars, allocVars, gfefVars, cache, current_size, stats,
                   incr_calls>>

\* update_stats_internal: self.cache.read(), with stats' write guard held.
StatsReadCache(t) ==
    /\ thread[t].pc = "stats_cache"
    /\ CanRead("cache")
    /\ locks' = [locks EXCEPT !["cache"].readers = @ \cup {t}]
    /\ thread' = [thread EXCEPT ![t].pc = "stats_size"]
    /\ UNCHANGED <<registryVars, certVars, authVars, allocVars, gfefVars, cache, current_size, stats,
                   incr_calls>>

\* update_stats_internal: self.current_size.read(), the figures computed,
\* every guard dropped and the call returned.
StatsFinish(t) ==
    /\ thread[t].pc = "stats_size"
    /\ CanRead("current_size")
    /\ stats' = update_stats_internal(stats)
    /\ locks' = [locks EXCEPT !["cache"].readers = @ \ {t},
                              !["stats"].writer = "none"]
    /\ thread' = [thread EXCEPT ![t] =
           Returned(thread[t].op, thread[t].key,
                    IF thread[t].op = "stats" THEN update_stats_internal(stats)
                    ELSE thread[t].ret)]
    /\ incr_calls' = IF thread[t].op = "incr"
                     THEN [incr_calls EXCEPT ![thread[t].key].n = @ + 1]
                     ELSE incr_calls
    /\ UNCHANGED <<registryVars, certVars, authVars, allocVars, gfefVars, cache, current_size>>

\* get under the cache's write lock; the statistics follow.
Get(t, key) ==
    /\ Idle(t)
    /\ stats.hits + stats.misses < MaxStat
    /\ CanWrite("cache")
    /\ thread' = [thread EXCEPT ![t] =
           [pc |-> "stats", op |-> "get", key |-> key,
            ret |-> IF key \in DOMAIN cache
                    THEN Some(decompress(cache[key].compressed_value,
                                         cache[key].original_size))
                    ELSE None,
            stat |-> IF key \in DOMAIN cache THEN "hits" ELSE "misses"]]
    /\ UNCHANGED <<registryVars, certVars, authVars, allocVars, gfefVars, cache, current_size, stats,
                   locks, incr_calls>>

\* delete: self.cache.write() and cache.remove(key); Ok(false) if absent.
Delete(t, key) ==
    /\ Idle(t)
    /\ stats.deletes < MaxStat
    /\ CanWrite("cache")
    /\ IF key \in DOMAIN cache
       THEN /\ cache' = Remove(cache, key)
            /\ locks' = [locks EXCEPT !["cache"].writer = t]
            /\ thread' = [thread EXCEPT ![t] =
                   [pc |-> "delete_size", op |-> "delete", key |-> key,
                    size |-> Len(cache[key].compressed_value)]]
            /\ incr_calls' = [incr_calls EXCEPT ![key] = FreshRun]
       ELSE /\ thread' = [thread EXCEPT ![t] = Returned("delete", key, FALSE)]
            /\ UNCHANGED <<cache, locks, incr_calls>>
    /\ UNCHANGED <<registryVars, certVars, authVars, allocVars, gfefVars, current_size, stats>>

\* delete: self.current_size.write(), with the cache's write guard held.
DeleteSize(t) ==
    /\ thread[t].pc = "delete_size"
    /\ CanWrite("current_size")
    /\ current_size' = current_size - thread[t].size
    /\ locks' = [locks EXCEPT !["current_size"].writer = t]
    /\ thread' = [thread EXCEPT ![t].pc = "delete_stats"]
    /\ UNCHANGED <<registryVars, certVars, authVars, allocVars, gfefVars, cache, stats, incr_calls>>

\* delete: self.stats.write(), with both guards held; then all dropped.
DeleteStats(t) ==
    /\ thread[t].pc = "delete_stats"
    /\ CanWrite("stats")
    /\ stats' = [stats EXCEPT !.deletes = @ + 1]
    /\ locks' = [locks EXCEPT !["cache"].writer = "none",
                              !["current_size"].writer = "none"]
    /\ thread' = [thread EXCEPT ![t] = Returned("delete", thread[t].key, TRUE)]
    /\ UNCHANGED <<registryVars, certVars, authVars, allocVars, gfefVars, cache, current_size, incr_calls>>

\* The counter incr stores for an entry: the parsed value plus one.
NextCounter(entry) ==
    parse_or_zero(decompress(entry.compressed_value, entry.original_size)) + 1

\* incr under the cache's write lock: the entry rewritten and the counter
\* returned, or the guard dropped for set(key, b"1", None).
Incr(t, key) ==
    /\ Idle(t)
    /\ incr_calls[key].n < MaxIncr
    /\ CanWrite("cache")
    /\ IF key \in DOMAIN cache
       THEN /\ cache' = [cache EXCEPT ![key] =
                   [@ EXCEPT !.compressed_value = compress(to_string(NextCounter(cache[key]))),
                             !.original_size = Len(to_string(NextCounter(cache[key])))]]
            /\ thread' = [thread EXCEPT ![t] =
                   Returned("incr", key, NextCounter(cache[key]))]
            /\ incr_calls' = [incr_calls EXCEPT ![key].n = @ + 1]
       ELSE /\ stats.sets < MaxStat
            /\ thread' = [thread EXCEPT ![t] =
                   [pc |-> "incr_set", op |-> "incr", key |-> key,
                    value |-> to_string(1), ttl |-> None, ret |-> 1]]
            /\ UNCHANGED <<cache, incr_calls>>
    /\ UNCHANGED <<registryVars, certVars, authVars, allocVars, gfefVars, current_size, stats, locks>>

\* incr's set through evict_if_needed.
IncrSet(t) ==
    /\ thread[t].pc = "incr_set"
    /\ CanRead("current_size")
    /\ current_size + Len(compress(thread[t].value)) <= MAX_SIZE
    /\ thread' = [thread EXCEPT ![t].pc = "set_cache"]
    /\ UNCHANGED <<registryVars, certVars, authVars, allocVars, gfefVars, cache, current_size, stats,
                   locks, incr_calls>>

\* clear: self.cache.write()
Clear(t) ==
    /\ Idle(t)
    /\ CanWrite("cache")
    /\ locks' = [locks EXCEPT !["cache"].writer = t]
    /\ thread' = [thread EXCEPT ![t] = [pc |-> "clear_size", op |-> "clear"]]
    /\ UNCHANGED <<registryVars, certVars, authVars, allocVars, gfefVars, cache, current_size, stats,
                   incr_calls>>

\* clear: self.current_size.write(), both emptied, the guards dropped.
ClearSize(t) ==
    /\ thread[t].pc = "clear_size"
    /\ CanWrite("current_size")
    /\ cache' = EmptyMap
    /\ current_size' = 0
    /\ locks' = [locks EXCEPT !["cache"].writer = "none"]
    /\ thread' = [thread EXCEPT ![t] = Returned("clear", "", Unit)]
    /\ incr_calls' = [k \in CacheKeys |-> FreshRun]
    /\ UNCHANGED <<registryVars, certVars, authVars, allocVars, gfefVars, stats>>

\* ----------------------------------------------------------- cache specs
\* The values set stores: "1", "10", "x" and the empty value.
CacheValues == {<<\H31>>, <<\H31, \H30>>, <<\H78>>, <<>>}

\* One thread counts on "counter" and sets and reads "key1".
IncrNext ==
    \/ \E key \in CacheKeys : Incr("t1", key)
    \/ IncrSet("t1")
    \/ \E value \in CacheValues : Set("t1", "key1", value, None)
    \/ SetLockCache("t1")
    \/ SetStore("t1")
    \/ \E key \in CacheKeys : Get("t1", key)
    \/ StatsLock("t1")
    \/ StatsReadCache("t1")
    \/ StatsFinish("t1")

IncrSpec == KeyedInit /\ [][IncrNext]_vars

\* C29: on a key that was not in the cache and is touched by incr alone,
\* the n-th incr call returns n.
C29_IncrCounts ==
    \A t \in Threads :
        (/\ thread[t].pc = "returned"
         /\ thread[t].op = "incr"
         /\ incr_calls[thread[t].key].pure)
        => thread[t].ret = incr_calls[thread[t].key].n


\* Two threads call set, get, delete, incr, stats and clear on one key.
CacheNext ==
    \E t \in Threads :
        \/ Set(t, "key1", <<\H31>>, None)
        \/ SetLockCache(t)
        \/ SetStore(t)
        \/ StatsLock(t)
        \/ Stats(t)
        \/ StatsReadCache(t)
        \/ StatsFinish(t)
        \/ Get(t, "key1")
        \/ Delete(t, "key1")
        \/ DeleteSize(t)
        \/ DeleteStats(t)
        \/ incr_calls["key1"].n < MaxRaceIncr /\ Incr(t, "key1")
        \/ IncrSet(t)
        \/ Clear(t)
        \/ ClearSize(t)

CacheSpec == KeyedInit /\ [][CacheNext]_vars

\* Thread t holds lock l, as its writer or as a reader.
Holds(t, l) == locks[l].writer = t \/ t \in locks[l].readers

\* The lock thread t's next step acquires, and whether it acquires it to write.
Awaited(t) ==
    CASE thread[t].pc \in {"set_cache", "stats_cache"} -> "cache"
      [] thread[t].pc \in {"set_size", "stats_size", "delete_size", "incr_set",
                           "clear_size"} -> "current_size"
      [] thread[t].pc \in {"stats", "delete_stats"} -> "stats"
      [] OTHER -> "no lock"

AwaitsWrite(t) ==
    thread[t].pc \in {"set_cache", "set_size", "delete_size", "clear_size",
                      "stats", "delete_stats"}

\* Thread t cannot take its next step while thread u keeps what it holds.
WaitsOn(t, u) ==
    /\ Awaited(t) \in LockNames
    /\ IF AwaitsWrite(t) THEN Holds(u, Awaited(t))
       ELSE locks[Awaited(t)].writer = u

\* C30: in no reachable state do two calls each hold one of the cache,
\* current_size and stats locks while waiting for a lock the other holds.
C30_NoCircularWait ==
    \A t, u \in Threads :
        t # u => ~ (WaitsOn(t, u) /\ WaitsOn(u, t))


\* C31: a validate_key call that returns an error (key not registered,
\* disabled, expired, or rate limit reached) leaves the key store as it was:
\* every entry's request_count and window start are those before the call.
C31_FailedValidateChangesNothing ==
    [][\A c \in AuthCallers :
          (ValidateKey(c) /\ ~ aresp'.result.ok) => api_keys' = api_keys]_vars

\* A call was refused for the rate limit with calls of the window counted.
C31_Witness ==
    /\ aresp.op = "validate_key"
    /\ ~ aresp.result.ok
    /\ aresp.key_hash \in DOMAIN api_keys
    /\ api_keys[aresp.key_hash].request_count > 0
    /\ keys_lock = "none"

\* C32: a check_allocation_allowed call that is refused with
\* ResourceExhausted leaves the key's entry as it was, request_count
\* included.
C32_RejectedCheckChangesNothing ==
    [][(CheckAllocationAllowed("c1")
        /\ aresp'.result = Err("ResourceExhausted"))
       => api_keys' = api_keys]_vars


\* ------------------------------------------- revocation record and list
\* The positions of the revocation list that carry serial.
CrlEntriesFor(serial) == {i \in 1..Len(crl) : crl[i].serial_number = serial}

\* The entry stored under serial and the revocation list record the same
\* revocation, or both record none.
RevocationRecorded(serial) ==
    LET cert == certificates[serial]
        listed == /\ Cardinality(CrlEntriesFor(serial)) = 1
                  /\ \A i \in CrlEntriesFor(serial) :
                        /\ Some(crl[i].revoked_at) = cert.revoked_at
                        /\ Some(crl[i].reason) = cert.revocation_reason
    IN /\ (cert.status = "Revoked") <=> (cert.revoked_at # None)
       /\ (cert.revoked_at # None) <=> (cert.revocation_reason # None)
       /\ (cert.revocation_reason # None) <=> listed

\* The revocation list names stored certificates only, each at most once.
CrlOverStore ==
    /\ \A i \in 1..Len(crl) : crl[i].serial_number \in DOMAIN certificates
    /\ \A s \in DOMAIN certificates : Cardinality(CrlEntriesFor(s)) <= 1

\* C33 as stated: in every reachable state each stored certificate is
\* Revoked iff it has a revocation time iff it has a reason iff exactly one
\* list entry carries its serial with that time and reason, and the list
\* holds no unknown serial and no serial twice.
C33_RevocationRecordedAlways ==
    /\ \A s \in DOMAIN certificates : RevocationRecorded(s)
    /\ CrlOverStore

\* C33: the same, in every state but the one inside revoke_certificate
\* between the marking of the entry and the push onto the list.
C33_RevocationRecordedOutsidePush ==
    revoking.pc # "push" => C33_RevocationRecordedAlways

C33_Witness ==
    /\ revoking.pc = "none"
    /\ Len(crl) = 1
    /\ \E s \in DOMAIN certificates : certificates[s].status = "Revoked"
    /\ \E s \in DOMAIN certificates : certificates[s].status = "Valid"


\* C34: in every reachable state, those between the two inserts of an issue
\* call included, get_certificate and get_certificate_by_fingerprint agree:
\* a certificate is found under its serial iff it is found under its
\* fingerprint, and both lookups return the same entry.
C34_LookupsAgree ==
    \A serial \in SerialPool :
        get_certificate(serial) =
            get_certificate_by_fingerprint(
                calculate_fingerprint(CertificateDer(serial)))


\* The classification a handler's status string names.
StatusClass(status) ==
    CASE status = "revoked" -> "Revoked"
      [] status = "expired" -> "Expired"
      [] status \in {"valid", "good"} -> "Valid"
      [] OTHER -> "Unknown"

\* C35: for every stored entry and every current time, the time equal to
\* expires_at included, the status GetCertificateStatus answers and the
\* status CheckOcsp answers are the classification check_status computes
\* for that entry at that time: revoked, expired or valid.
C35_ClassifiersAgree ==
    [][\A s \in DOMAIN certificates :
          /\ GetCertificateStatus(s, EmptyString)
                => StatusClass(cresp'.status) = current_status(certificates[s], utc)
          /\ CheckCertificateOcsp(s)
                => StatusClass(cresp'.status) = current_status(certificates[s], utc)
      ]_vars


\* -------------------------------------------- install before publication
\* C36: in each registry the rotation installs the new artifact before it
\* sends the update: once a subscriber has received the update for version
\* N, the registry's current artifact, and so every get() answered from then
\* on, has version N or greater.
C36_InstalledBeforePublished ==
    [][\A i \in Instances :
          GetMatrix(i) =>
              \A s \in Subscribers :
                  rx[s].inst = i =>
                      \A k \in 1..Len(received[s]) :
                          resp'.matrix.version >= received[s][k]]_vars

\* C36 witness: a subscriber received the update for version 2 and a get()
\* on its registry was answered afterwards.
C36_Witness ==
    \E s \in Subscribers :
        /\ received[s] # <<>>
        /\ resp.op = "get"
        /\ resp.inst = rx[s].inst
        /\ resp.matrix.version = received[s][Len(received[s])]


\* ==================================================== allocation service
\* u64 values are little-endian sequences of 16-bit limbs without leading
\* zero limbs, so that sums beyond 64 bits can be told from wrapped ones.
LIMB == 65536
U64_LIMBS == 4

RECURSIVE ToLimbs(_)
ToLimbs(n) == IF n = 0 THEN <<>> ELSE <<n % LIMB>> \o ToLimbs(n \div LIMB)

U64_MAX == [i \in 1..U64_LIMBS |-> LIMB - 1]

LimbAt(a, i) == IF i <= Len(a) THEN a[i] ELSE 0

RECURSIVE Trim(_)
Trim(a) ==
    IF a # <<>> /\ a[Len(a)] = 0 THEN Trim(SubSeq(a, 1, Len(a) - 1)) ELSE a

RECURSIVE AddFrom(_, _, _, _)
AddFrom(a, b, i, carry) ==
    IF i > Len(a) /\ i > Len(b)
    THEN IF carry = 0 THEN <<>> ELSE <<carry>>
    ELSE LET s == LimbAt(a, i) + LimbAt(b, i) + carry
         IN  <<s % LIMB>> \o AddFrom(a, b, i + 1, s \div LIMB)

\* The sum of two naturals, unbounded.
Plus(a, b) == AddFrom(a, b, 1, 0)

\* a + b does not fit into 64 bits.
Overflows(a, b) == Len(Plus(a, b)) > U64_LIMBS

\* a + b of two u64 where the build wraps: the low 64 bits of the sum.
wrapping_add(a, b) ==
    Trim(SubSeq(Plus(a, b), 1, Min(Len(Plus(a, b)), U64_LIMBS)))

RECURSIVE GtFrom(_, _, _)
GtFrom(a, b, i) ==
    IF i = 0 THEN FALSE
    ELSE IF a[i] # b[i] THEN a[i] > b[i]
    ELSE GtFrom(a, b, i - 1)

\* a > b.
Gt(a, b) == IF Len(a) # Len(b) THEN Len(a) > Len(b) ELSE GtFrom(a, b, Len(a))

RECURSIVE SubFrom(_, _, _, _)
SubFrom(a, b, i, borrow) ==
    IF i > Len(a) THEN <<>>
    ELSE LET d == LimbAt(a, i) - LimbAt(b, i) - borrow
         IN  <<IF d < 0 THEN d + LIMB ELSE d>>
                 \o SubFrom(a, b, i + 1, IF d < 0 THEN 1 ELSE 0)

\* u64::saturating_sub.
saturating_sub(a, b) == IF Gt(a, b) THEN Trim(SubFrom(a, b, 1, 0)) ELSE <<>>

\* AllocationServiceImpl::new: max_allocation_per_agent_tb.
MAX_ALLOCATION_PER_AGENT_TB == 1000

max_allocation_per_agent_tb == ToLimbs(MAX_ALLOCATION_PER_AGENT_TB)

\* The allocations the model hands ids to.
MaxAllocs == 3

Agents == {"agent-1", "agent-2"}
RequestedTb == {ToLimbs(1), ToLimbs(600), U64_MAX}
AllocationIds == 1..MaxAllocs

\* HashMap::get(..).copied().unwrap_or(0).
unwrap_or_zero(map, key) == IF key \in DOMAIN map THEN map[key] ELSE <<>>

\* Who holds which lock: allocate_memory keeps the agent_allocations write
\* guard from its limit check to its return, free_memory keeps the
\* allocations write guard from the removal to its return, and
\* get_allocation_status keeps the allocations read guard.
AgentAllocsWriteHeld == \E c \in AllocCallers : alloc_call[c].pc = "store"
AllocationsWriteHeld == \E c \in AllocCallers : alloc_call[c].pc = "total"
AllocationsReadHeld == \E c \in AllocCallers : alloc_call[c].pc = "status"

AllocationUnchanged ==
    UNCHANGED <<registryVars, certVars, authVars, cacheVars, gfefVars>>

\* The limit check of allocate_memory.
exceeds_limit(current_alloc, requested_tb) ==
    Gt(wrapping_add(current_alloc, requested_tb), max_allocation_per_agent_tb)

\* allocate_memory: self.agent_allocations.write().await and the limit
\* check.  An addition that overflows panics in a build with overflow checks
\* and wraps in one without.
AllocateMemory(c, agent_id, requested_tb) ==
    /\ alloc_call[c].pc = "none"
    /\ ~AgentAllocsWriteHeld
    /\ alloc_ids + Cardinality({d \in AllocCallers : alloc_call[d].pc = "store"})
           < MaxAllocs
    /\ LET current_alloc == unwrap_or_zero(agent_allocations, agent_id) IN
       \/ /\ Overflows(current_alloc, requested_tb)
          /\ alloc_resp' = [op |-> "allocate_memory", caller |-> c,
                            outcome |-> "panic"]
          /\ UNCHANGED alloc_call
       \/ /\ exceeds_limit(current_alloc, requested_tb)
          /\ alloc_resp' = [op |-> "allocate_memory", caller |-> c,
                            outcome |-> "returned", success |-> FALSE,
                            allocated_tb |-> <<>>]
          /\ UNCHANGED alloc_call
       \/ /\ ~exceeds_limit(current_alloc, requested_tb)
          /\ alloc_call' = [alloc_call EXCEPT ![c] =
                               [pc |-> "store", agent_id |-> agent_id,
                                requested_tb |-> requested_tb]]
          /\ UNCHANGED alloc_resp
    /\ UNCHANGED <<allocations, agent_allocations, alloc_ids>>
    /\ AllocationUnchanged

\* allocate_memory: self.allocations.write().await.insert(..), the agent's
\* total += requested_tb, and the response.
AllocateStore(c) ==
    /\ alloc_call[c].pc = "store"
    /\ ~AllocationsWriteHeld
    /\ ~AllocationsReadHeld
    /\ LET agent_id == alloc_call[c].agent_id
           requested_tb == alloc_call[c].requested_tb
           allocation_id == alloc_ids + 1
       IN /\ allocations' = Insert(allocations, allocation_id,
                                   [allocation_id |-> allocation_id,
                                    agent_id      |-> agent_id,
                                    allocated_tb  |-> requested_tb])
          /\ agent_allocations' =
                 Insert(agent_allocations, agent_id,
                        wrapping_add(unwrap_or_zero(agent_allocations, agent_id),
                                     requested_tb))
          /\ alloc_ids' = allocation_id
          /\ alloc_resp' = [op |-> "allocate_memory", caller |-> c,
                            outcome |-> "returned", success |-> TRUE,
                            allocated_tb |-> requested_tb]
    /\ alloc_call' = [alloc_call EXCEPT ![c] = NoCall]
    /\ AllocationUnchanged

\* free_memory: self.allocations.write().await and allocations.remove(..).
FreeMemory(c, allocation_id) ==
    /\ alloc_call[c].pc = "none"
    /\ ~AllocationsWriteHeld
    /\ ~AllocationsReadHeld
    /\ IF allocation_id \in DOMAIN allocations
       THEN /\ allocations' = Remove(allocations, allocation_id)
            /\ alloc_call' = [alloc_call EXCEPT ![c] =
                                 [pc |-> "total",
                                  record |-> allocations[allocation_id]]]
            /\ UNCHANGED alloc_resp
       ELSE /\ alloc_resp' = [op |-> "free_memory", caller |-> c,
                              outcome |-> "returned", success |-> FALSE,
                              freed_tb |-> <<>>]
            /\ UNCHANGED <<allocations, alloc_call>>
    /\ UNCHANGED <<agent_allocations, alloc_ids>>
    /\ AllocationUnchanged

\* free_memory: self.agent_allocations.write().await, saturating_sub and
\* the response.
FreeTotal(c) ==
    /\ alloc_call[c].pc = "total"
    /\ ~AgentAllocsWriteHeld
    /\ LET record == alloc_call[c].record IN
       /\ agent_allocations' =
              IF record.agent_id \in DOMAIN agent_allocations
              THEN [agent_allocations EXCEPT ![record.agent_id] =
                       saturating_sub(@, record.allocated_tb)]
              ELSE agent_allocations
       /\ alloc_resp' = [op |-> "free_memory", caller |-> c,
                         outcome |-> "returned", success |-> TRUE,
                         freed_tb |-> record.allocated_tb]
    /\ alloc_call' = [alloc_call EXCEPT ![c] = NoCall]
    /\ UNCHANGED <<allocations, alloc_ids>>
    /\ AllocationUnchanged

\* get_allocation_status: self.allocations.read().await.
GetAllocationStatus(c, agent_id) ==
    /\ alloc_call[c].pc = "none"
    /\ ~AllocationsWriteHeld
    /\ alloc_call' = [alloc_call EXCEPT ![c] =
                         [pc |-> "status", agent_id |-> agent_id]]
    /\ UNCHANGED <<allocations, agent_allocations, alloc_ids, alloc_resp>>
    /\ AllocationUnchanged

\* The sum of allocated_tb over the live allocations of an agent, unbounded.
RECURSIVE SumAllocated(_, _)
SumAllocated(ids, agent_id) ==
    IF ids = {} THEN <<>>
    ELSE LET id == CHOOSE x \in ids : TRUE
             rest == SumAllocated(ids \ {id}, agent_id)
         IN  IF allocations[id].agent_id = agent_id
             THEN Plus(allocations[id].allocated_tb, rest) ELSE rest

\* get_allocation_status: self.agent_allocations.read().await, the loop
\* over the agent's allocations and the response.
StatusAgents(c) ==
    /\ alloc_call[c].pc = "status"
    /\ ~AgentAllocsWriteHeld
    /\ LET total == SumAllocated(DOMAIN allocations, alloc_call[c].agent_id) IN
       \/ /\ Len(total) > U64_LIMBS
          /\ alloc_resp' = [op |-> "get_allocation_status", caller |-> c,
                            outcome |-> "panic"]
       \/ alloc_resp' =
              [op |-> "get_allocation_status", caller |-> c,
               outcome |-> "returned",
               total_allocated_tb |->
                   Trim(SubSeq(total, 1, Min(Len(total), U64_LIMBS))),
               remaining_quota_tb |->
                   saturating_sub(max_allocation_per_agent_tb,
                       Trim(SubSeq(total, 1, Min(Len(total), U64_LIMBS))))]
    /\ alloc_call' = [alloc_call EXCEPT ![c] = NoCall]
    /\ UNCHANGED <<allocations, agent_allocations, alloc_ids>>
    /\ AllocationUnchanged

\* The allocation service under two concurrent callers.
MemoryNext ==
    \/ \E c \in AllocCallers, a \in Agents, tb \in RequestedTb :
           AllocateMemory(c, a, tb)
    \/ \E c \in AllocCallers : AllocateStore(c)
    \/ \E c \in AllocCallers, id \in AllocationIds : FreeMemory(c, id)
    \/ \E c \in AllocCallers : FreeTotal(c)
    \/ \E c \in AllocCallers, a \in Agents : GetAllocationStatus(c, a)
    \/ \E c \in AllocCallers : StatusAgents(c)

MemorySpec == CertInit /\ [][MemoryNext]_vars

\* A call in progress can take its next step.
CanProceed(c) ==
    \/ ENABLED AllocateStore(c)
    \/ ENABLED FreeTotal(c)
    \/ ENABLED StatusAgents(c)

\* C37: concurrent allocate_memory, free_memory and get_allocation_status
\* calls never deadlock: whenever calls are in progress, one of them can
\* take the lock it waits for, so every call goes on to return.
C37_SomeCallProceeds ==
    (\E c \in AllocCallers : alloc_call[c].pc # "none")
        => \E c \in AllocCallers : CanProceed(c)


\* C38: once the calls made so far have returned, each agent's recorded
\* total is the sum of allocated_tb over its live allocations and does not
\* exceed max_allocation_per_agent_tb, whatever u64 values were requested.
C38_TotalsMatchLive ==
    (\A c \in AllocCallers : alloc_call[c].pc = "none")
        => \A a \in Agents :
              /\ unwrap_or_zero(agent_allocations, a)
                     = SumAllocated(DOMAIN allocations, a)
              /\ ~Gt(unwrap_or_zero(agent_allocations, a),
                     max_allocation_per_agent_tb)


\* ------------------------------------------------- tracked cache size
\* The sum of the compressed lengths of the entries stored under keys.
RECURSIVE CompressedBytes(_, _)
CompressedBytes(map, keys) ==
    IF keys = {} THEN 0
    ELSE LET k == CHOOSE k \in keys : TRUE
         IN Len(map[k].compressed_value) + CompressedBytes(map, keys \ {k})

\* C39: once the set, get, delete, incr and clear calls made so far have
\* returned, current_size is the sum of the compressed lengths of the
\* stored entries, so removing an entry never subtracts more than it holds.
C39_SizeMatchesEntries ==
    (\A t \in Threads : Idle(t))
        => current_size = CompressedBytes(cache, DOMAIN cache)


\* ==================================================== prediction quota
\* How far the subscription clock runs, and its step, in days.
MaxGfefUtc == 30
GfefStep == 15

\* SubscriptionTier::monthly_predictions.
TRIAL_PREDICTIONS == 1000
DEVELOPER_PREDICTIONS == 100000
PROFESSIONAL_PREDICTIONS == 1000000

monthly_predictions(tier) ==
    CASE tier = "Trial" -> ToLimbs(TRIAL_PREDICTIONS)
      [] tier = "Developer" -> ToLimbs(DEVELOPER_PREDICTIONS)
      [] tier = "Professional" -> ToLimbs(PROFESSIONAL_PREDICTIONS)
      [] tier = "Enterprise" -> U64_MAX

\* Subscription::new at time t.
SUBSCRIPTION_DAYS == 30

NewSubscription(customer_id, tier, t) ==
    [customer_id       |-> customer_id,
     tier              |-> tier,
     created_at        |-> t,
     expires_at        |-> t + SUBSCRIPTION_DAYS,
     predictions_used  |-> ToLimbs(0),
     predictions_quota |-> monthly_predictions(tier)]

is_active(sub, t) == t < sub.expires_at

has_quota(sub) == Gt(sub.predictions_quota, sub.predictions_used)

\* Subscription::consume_prediction: the subscription after the call and
\* what the call returns.  No handler calls it.
consume_prediction(sub) ==
    IF has_quota(sub)
    THEN [sub |-> [sub EXCEPT !.predictions_used = wrapping_add(@, ToLimbs(1))],
          ret |-> TRUE]
    ELSE [sub |-> sub, ret |-> FALSE]

\* SubscriptionManager::validate_access.
validate_access(subs, customer_id, t) ==
    IF customer_id \notin DOMAIN subs THEN Err("NotFound")
    ELSE IF ~is_active(subs[customer_id], t) THEN Err("Expired")
    ELSE IF ~has_quota(subs[customer_id]) THEN Err("QuotaExceeded")
    ELSE Ok(subs[customer_id])

\* ActivationPredictor::predict, as far as the subscription and the index
\* decide its result; subscription is a shared reference.
predict(model_id, layer_id, subscription, t) ==
    IF ~is_active(subscription, t) THEN Err("SubscriptionExpired")
    ELSE IF ~has_quota(subscription) THEN Err("QuotaExceeded")
    ELSE IF model_id \notin DOMAIN indices THEN Err("ModelNotFound")
    ELSE IF layer_id \notin indices[model_id] THEN Err("LayerNotFound")
    ELSE Ok([credits_remaining |->
                 saturating_sub(saturating_sub(subscription.predictions_quota,
                                               subscription.predictions_used),
                                ToLimbs(1))])

\* The HTTP status predict_activation maps a PredictionError to.
StatusCode(error) ==
    CASE error \in {"ModelNotFound", "LayerNotFound"} -> "NOT_FOUND"
      [] error = "SubscriptionExpired" -> "PAYMENT_REQUIRED"
      [] error = "QuotaExceeded" -> "TOO_MANY_REQUESTS"
      [] OTHER -> "INTERNAL_SERVER_ERROR"

\* CalibrationService::get_matrix: the current matrix while it is valid,
\* else a matrix generated now.
get_matrix(t) ==
    IF t < gfef_matrix.expires_at THEN gfef_matrix
    ELSE [expires_at |-> t + calibration_rotation]

GfefUnchanged ==
    UNCHANGED <<registryVars, certVars, authVars, cacheVars, allocVars>>

\* POST /v1/predict.
PredictActivation(customer_id, model_id, layer_id) ==
    LET access == validate_access(subscriptions, customer_id, gfef_utc)
        response == predict(model_id, layer_id, access.value, gfef_utc)
    IN /\ IF ~access.ok
          THEN /\ presp' = [op |-> "predict", customer_id |-> customer_id,
                            status |-> "FORBIDDEN", result |-> access]
               /\ UNCHANGED gfef_matrix
          ELSE /\ gfef_matrix' = get_matrix(gfef_utc)
               /\ presp' = [op |-> "predict", customer_id |-> customer_id,
                            status |-> IF response.ok THEN "OK"
                                       ELSE StatusCode(response.status),
                            result |-> response]
       /\ UNCHANGED <<subscriptions, indices, gfef_utc>>
       /\ GfefUnchanged

\* POST /v1/subscription: the record replaces the customer's previous one.
CreateSubscription(customer_id, tier) ==
    /\ subscriptions' = Insert(subscriptions, customer_id,
                               NewSubscription(customer_id, tier, gfef_utc))
    /\ presp' = [op |-> "create_subscription", customer_id |-> customer_id,
                 status |-> "OK",
                 result |-> Ok(NewSubscription(customer_id, tier, gfef_utc))]
    /\ UNCHANGED <<indices, gfef_utc, gfef_matrix>>
    /\ GfefUnchanged

\* GET /v1/subscription/{customer_id}.
GetSubscription(customer_id) ==
    /\ presp' = IF customer_id \in DOMAIN subscriptions
                THEN [op |-> "get_subscription", customer_id |-> customer_id,
                      status |-> "OK", result |-> Ok(subscriptions[customer_id])]
                ELSE [op |-> "get_subscription", customer_id |-> customer_id,
                      status |-> "NOT_FOUND", result |-> Err("NotFound")]
    /\ UNCHANGED <<subscriptions, indices, gfef_utc, gfef_matrix>>
    /\ GfefUnchanged

\* ActivationPredictor::register_index.
RegisterIndex(model_id, layers) ==
    /\ indices' = Insert(indices, model_id, layers)
    /\ UNCHANGED <<subscriptions, gfef_utc, gfef_matrix, presp>>
    /\ GfefUnchanged

\* Utc::now() advances.
GfefTick ==
    /\ gfef_utc < MaxGfefUtc
    /\ gfef_utc' = gfef_utc + GfefStep
    /\ UNCHANGED <<subscriptions, indices, gfef_matrix, presp>>
    /\ GfefUnchanged

Customers == {"customer-1", "customer-2"}
SubscriptionTiers == {"Trial", "Developer", "Professional", "Enterprise"}
ModelIds == {"model-a", "model-b"}
LayerIds == {0, 1}
IndexLayers == {{0}}

\* The prediction API under subscriptions, predictions and the clock.
QuotaNext ==
    \/ \E cu \in Customers, m \in ModelIds, l \in LayerIds :
           PredictActivation(cu, m, l)
    \/ \E cu \in Customers, tier \in SubscriptionTiers :
           CreateSubscription(cu, tier)
    \/ \E cu \in Customers : GetSubscription(cu)
    \/ \E layers \in IndexLayers : RegisterIndex("model-a", layers)
    \/ GfefTick

QuotaSpec == CertInit /\ [][QuotaNext]_vars

\* C40: every successful predict request raises the customer's
\* predictions_used by 1, and predictions_used never exceeds the quota.
C40_SuccessConsumesQuota ==
    [][\A cu \in Customers, m \in ModelIds, l \in LayerIds :
          (PredictActivation(cu, m, l) /\ presp'.result.ok)
          => /\ subscriptions'[cu].predictions_used
                    = Plus(subscriptions[cu].predictions_used, ToLimbs(1))
             /\ ~Gt(subscriptions'[cu].predictions_used,
                    subscriptions'[cu].predictions_quota)]_vars

=============================================================================
